---- MODULE Spec2Model ----
(***************************************************************************)
(* Manifest reconciliation and train/dev/test split tools of the           *)
(* CommonVoice data-preparation scripts (my-info/concise-tsv-by-jimmy).     *)
(*                                                                         *)
(* A manifest is the sequence of data rows of a TSV file (the header is    *)
(* kept apart).  A row is the list of its fields; indices are 0-based in   *)
(* the scripts and 1-based here, so row[i] of the code is row[i + 1].      *)
(* A path is the list of its components, a sentence the list of its        *)
(* characters.  The clips directory is the set of *.mp3 names in it.       *)
(***************************************************************************)
EXTENDS Integers, Sequences, FiniteSets, TLC

\* ---- bounds of the model ------------------------------------------------
MaxRows == 3
MaxSentLen == 1
MaxRuns == 2
MaxN == 12
RatioDen == 16

\* ---- data ---------------------------------------------------------------
Whitespace == {" "}
Chars == {" ", "a"}
SeqUpTo(S, n) == UNION {[1..k -> S] : k \in 0..n}
Sentences == SeqUpTo(Chars, MaxSentLen)
ClipNames == {"a.mp3", "b.mp3"}
Paths == {<<"a.mp3">>, <<"b.mp3">>, <<"d", "a.mp3">>}
Header == <<"client_id", "path", "sentence_id", "sentence">>
FullRows == {<<"c", p, "s", s>> : p \in Paths, s \in Sentences}
ShortRows == {<<"c">>, <<"c", <<"a.mp3">>>>}
Rows == FullRows \cup ShortRows
Manifests == SeqUpTo(Rows, MaxRows)
\* the rows the split tools are tried on: with and without a sentence, two
\* rows for one clip, a path with a directory, a row without a path
SplitRows ==
  {<<"c", <<"a.mp3">>, "s", <<"a">>>>, <<"c", <<"a.mp3">>, "s", <<>>>>,
   <<"c", <<"b.mp3">>, "s", <<"a">>>>, <<"c", <<"b.mp3">>, "s", <<" ">>>>,
   <<"c", <<"d", "a.mp3">>, "s", <<"a">>>>, <<"c">>}
SplitManifests == SeqUpTo(SplitRows, MaxRows)
\* manifests of up to MaxN well-formed rows, one clip each
FileNames == <<"f01.mp3", "f02.mp3", "f03.mp3", "f04.mp3", "f05.mp3",
               "f06.mp3", "f07.mp3", "f08.mp3", "f09.mp3", "f10.mp3",
               "f11.mp3", "f12.mp3", "f13.mp3", "f14.mp3", "f15.mp3">>
LongRow(i) == <<"c", <<FileNames[i]>>, "s", <<"a">>>>
LongManifests == {[i \in 1..n |-> LongRow(i)] : n \in 0..MaxN}
LongClips == {"f01.mp3", "f02.mp3", "a.mp3"}
\* numerators of the --dev-ratio / --test-ratio values tried
RatioNums ==
  {-(RatioDen \div 4), 0, 1, 2} \cup ((RatioDen \div 2 - 2)..(RatioDen \div 2 + 1)) \cup {RatioDen}
Seeds == {42, 7}
\* values of --total-rows tried
TotalRowsArgs == {0, 2, MaxN \div 2, MaxN + 1}
\* states the generator of a fresh process may start in
Entropy == {0, 3}

Min(a, b) == IF a < b THEN a ELSE b
Max(a, b) == IF a > b THEN a ELSE b

\* ---- state ----------------------------------------------------------------
VARIABLES tool, pc, run, manifest, clips, manifest0, clips0, hist,
          mp3_files, valid_rows, empty_sentence_mp3s, valid_mp3s, extra_mp3s,
          consistent, deleted, effects,
          dev_ratio, test_ratio, seed, rng0, rng, filtered_rows, all_rows,
          dev_size, test_size, train_size, dev_tsv, test_tsv, train_tsv,
          total_rows, total_rows_in_file, num_to_select, selected_rows,
          locked, clips_dir, dry_run,
          source, min_words, num_samples, source_rows, new_rows, duplicates,
          target_dir, target_header,
          corpus, skip_audio_conversion, sync_files, rebuild_tsv,
          processed_files,
          partial, workers, completed, interrupted,
          total_hours, temp_dir, wav_files, selected_files,
          current_total_duration, output_dir

ctl == <<tool, run>>
snap == <<manifest0, clips0, hist>>
fixLocals == <<mp3_files, empty_sentence_mp3s, extra_mp3s, consistent>>
splitArgs == <<dev_ratio, test_ratio, seed>>
sizes == <<dev_size, test_size, train_size>>
outs == <<dev_tsv, test_tsv, train_tsv>>
trainLocals == <<total_rows_in_file, num_to_select, selected_rows>>
trainVars == <<total_rows, trainLocals>>
splitVars == <<splitArgs, rng0, rng, filtered_rows, all_rows, sizes, outs, trainVars>>
\* what the file system answers (the clips that cannot be deleted, whether the
\* clips directory is there) and the --dry-run flag
env == <<locked, clips_dir, dry_run>>
appendArgs == <<source, min_words, num_samples>>
appendLocals == <<source_rows, new_rows, duplicates>>
appendVars == <<appendArgs, appendLocals, target_dir, target_header>>
soArgs == <<skip_audio_conversion, sync_files, rebuild_tsv>>
produceVars == <<corpus, soArgs, processed_files>>
convVars == <<partial, workers, completed, interrupted>>
hourVars == <<total_hours, temp_dir, wav_files, selected_files,
              current_total_duration, output_dir>>
otherVars == <<env, appendVars, produceVars, convVars, hourVars>>
vars == <<tool, pc, run, manifest, clips, manifest0, clips0, hist,
          mp3_files, valid_rows, empty_sentence_mp3s, valid_mp3s, extra_mp3s,
          consistent, deleted, effects,
          dev_ratio, test_ratio, seed, rng0, rng, filtered_rows, all_rows,
          dev_size, test_size, train_size, dev_tsv, test_tsv, train_tsv,
          total_rows, total_rows_in_file, num_to_select, selected_rows,
          locked, clips_dir, dry_run,
          source, min_words, num_samples, source_rows, new_rows, duplicates,
          target_dir, target_header,
          corpus, skip_audio_conversion, sync_files, rebuild_tsv,
          processed_files,
          partial, workers, completed, interrupted,
          total_hours, temp_dir, wav_files, selected_files,
          current_total_duration, output_dir>>

\* ---- library functions the scripts call ---------------------------------
RECURSIVE LStrip(_)
LStrip(s) == IF s # <<>> /\ Head(s) \in Whitespace THEN LStrip(Tail(s)) ELSE s
RECURSIVE RStrip(_)
RStrip(s) ==
  IF s # <<>> /\ s[Len(s)] \in Whitespace
  THEN RStrip(SubSeq(s, 1, Len(s) - 1)) ELSE s
Strip(s) == RStrip(LStrip(s))
Basename(p) == IF p = <<>> THEN "" ELSE p[Len(p)]
\* header.index(name) if name in header else default   (0-based)
ColumnIndex(header, name, default) ==
  IF \E i \in DOMAIN header : header[i] = name
  THEN (CHOOSE i \in DOMAIN header :
          header[i] = name /\ \A j \in DOMAIN header : header[j] = name => i <= j) - 1
  ELSE default

\* ---- fix_dataset_mismatch.py --------------------------------------------
\* line 47: len(row) > sentence_idx and row[sentence_idx].strip()
RowValid(row, sentence_idx) ==
  Len(row) > sentence_idx /\ Strip(row[sentence_idx + 1]) # <<>>
FixFilter_skip(rows, sentence_idx) ==
  LET RECURSIVE Go(_, _)
      Go(rs, i) ==
        IF i > Len(rs) THEN rs
        ELSE IF RowValid(rs[i], sentence_idx) THEN Go(rs, i + 1)
        ELSE Go(SubSeq(rs, 1, i - 1) \o SubSeq(rs, i + 1, Len(rs)), i + 1)
  IN Go(rows, 1)
FixFilter(rows, sentence_idx) ==
  SelectSeq(rows, LAMBDA r : RowValid(r, sentence_idx))
\* lines 55-60: the names collected from the rows that are not kept
FixEmptySentenceMp3s(rows, sentence_idx) ==
  {Basename(rows[i][2]) :
     i \in {j \in DOMAIN rows :
              ~RowValid(rows[j], sentence_idx) /\ Len(rows[j]) > 1}}
\* lines 74-79
FixValidMp3s(rows) ==
  {Basename(rows[i][2]) : i \in {j \in DOMAIN rows : Len(rows[j]) > 1}}
\* line 93
FixExtraMp3s(files, valid, empty) == (files \ valid) \ empty

\* ---- create_tsv_files_by_custom_validated_tsv.py ------------------------
\* Ratios are the floats k / RatioDen, given by their numerator k; a sum or
\* a product N * ratio is then the exact rational the script computes with.
\* line 131: args.dev_ratio + args.test_ratio >= 1.0
RatioRejected(dev_num, test_num) == dev_num + test_num >= RatioDen
\* round(num / den) as the built-in computes it: to nearest, ties to even
PyRound(num, den) ==
  LET q == num \div den
      r == num % den
  IN IF 2 * r < den THEN q
     ELSE IF 2 * r > den THEN q + 1
     ELSE IF q % 2 = 0 THEN q ELSE q + 1
\* lines 193-229
SplitSizes_lt10(n, dev_num, test_num) ==
  IF n >= 3
  THEN IF n < 10
       THEN [dev |-> 1, test |-> 1, train |-> n - 1 - 1]
       ELSE LET d == Max(1, PyRound(n * dev_num, RatioDen))
                t == Max(1, PyRound(n * test_num, RatioDen))
                over == d + t >= n
                d2 == IF over THEN 1 ELSE d
                t2 == IF over THEN 1 ELSE t
            IN [dev |-> d2, test |-> t2, train |-> n - d2 - t2]
  ELSE IF n = 2 THEN [dev |-> 1, test |-> 0, train |-> 1]
  ELSE IF n = 1 THEN [dev |-> 0, test |-> 0, train |-> 1]
  ELSE [dev |-> 0, test |-> 0, train |-> 0]
SplitSizes_noClamp(n, dev_num, test_num) ==
  IF n >= 3
  THEN IF n <= 10
       THEN [dev |-> 1, test |-> 1, train |-> n - 1 - 1]
       ELSE LET d == Max(1, PyRound(n * dev_num, RatioDen))
                t == Max(1, PyRound(n * test_num, RatioDen))
            IN [dev |-> d, test |-> t, train |-> n - d - t]
  ELSE IF n = 2 THEN [dev |-> 1, test |-> 0, train |-> 1]
  ELSE IF n = 1 THEN [dev |-> 0, test |-> 0, train |-> 1]
  ELSE [dev |-> 0, test |-> 0, train |-> 0]
SplitSizes_int(n, dev_num, test_num) ==
  IF n >= 3
  THEN IF n <= 10
       THEN [dev |-> 1, test |-> 1, train |-> n - 1 - 1]
       ELSE LET d == Max(1, (n * dev_num) \div RatioDen)
                t == Max(1, (n * test_num) \div RatioDen)
                over == d + t >= n
                d2 == IF over THEN 1 ELSE d
                t2 == IF over THEN 1 ELSE t
            IN [dev |-> d2, test |-> t2, train |-> n - d2 - t2]
  ELSE IF n = 2 THEN [dev |-> 1, test |-> 0, train |-> 1]
  ELSE IF n = 1 THEN [dev |-> 0, test |-> 0, train |-> 1]
  ELSE [dev |-> 0, test |-> 0, train |-> 0]
SplitSizes(n, dev_num, test_num) ==
  IF n >= 3
  THEN IF n <= 10
       THEN [dev |-> 1, test |-> 1, train |-> n - 1 - 1]
       ELSE LET d == Max(1, PyRound(n * dev_num, RatioDen))
                t == Max(1, PyRound(n * test_num, RatioDen))
                over == d + t >= n
                d2 == IF over THEN 1 ELSE d
                t2 == IF over THEN 1 ELSE t
            IN [dev |-> d2, test |-> t2, train |-> n - d2 - t2]
  ELSE IF n = 2 THEN [dev |-> 1, test |-> 0, train |-> 1]
  ELSE IF n = 1 THEN [dev |-> 0, test |-> 0, train |-> 1]
  ELSE [dev |-> 0, test |-> 0, train |-> 0]
\* s[lo:hi] of a list
SliceIndex(i, n) == IF i < 0 THEN Max(i + n, 0) ELSE Min(i, n)
PySlice(s, lo, hi) == SubSeq(s, SliceIndex(lo, Len(s)) + 1, SliceIndex(hi, Len(s)))
\* random.seed / random.shuffle: the generator is a state, seeding sets it
\* from the seed alone, and shuffle draws one index per position, from the
\* last position down, swapping as it goes
RngSeed_unseeded(s) == rng
RngSeed(s) == s % 16
RngNext(r) == (5 * r + 3) % 16
RECURSIVE ShuffleFrom(_, _, _)
ShuffleFrom(x, i, r) ==
  IF i < 2 THEN [rows |-> x, rng |-> r]
  ELSE LET r2 == RngNext(r)
           j == (r2 % i) + 1
       IN ShuffleFrom([x EXCEPT ![i] = x[j], ![j] = x[i]], i - 1, r2)
Shuffle(x, r) == ShuffleFrom(x, Len(x), r)
\* random.sample(range(1, n + 1), k): k draws from a shrinking pool
RECURSIVE SampleFrom(_, _, _, _)
SampleFrom(pool, k, r, acc) ==
  IF k <= 0 THEN [picked |-> acc, rng |-> r]
  ELSE LET r2 == RngNext(r)
           n == Len(pool)
           j == (r2 % n) + 1
       IN SampleFrom(SubSeq([pool EXCEPT ![j] = pool[n]], 1, n - 1),
                     k - 1, r2, acc \cup {pool[j]})
Sample(n, k, r) == SampleFrom([i \in 1..n |-> i], k, r, {})
\* lines 163-169
SplitValidMp3s(rows) == {Basename(rows[i][2]) : i \in DOMAIN rows}
\* lines 241-243
SplitDevRows(rows, d, t) == PySlice(rows, 0, d)
SplitTestRows(rows, d, t) == PySlice(rows, d, d + t)
SplitTrainRows(rows, d, t) == PySlice(rows, d + t, Len(rows))

\* a loop that unlinks the files of a set one after the other with nothing
\* around the call: the first unlink that raises ends the loop and the run,
\* and the files the loop came to before it are gone
UnlinkLoop(files, cannot) ==
  IF files \cap cannot = {}
  THEN {[removed |-> files, failed |-> FALSE, raised |-> FALSE]}
  ELSE {[removed |-> d, failed |-> TRUE, raised |-> TRUE] :
          d \in SUBSET (files \ cannot)}
\* the events a deletion loop adds to the log of the run
UnlinkEvents(o) ==
  (IF o.removed # {} THEN {"unlink"} ELSE {})
    \cup (IF o.failed THEN {"unlink_failed"} ELSE {})

\* the environment the reconciliation and split runs above are tried in: a
\* clips directory that is there, every clip deletable, no --dry-run
EnvInit ==
  /\ locked = {}
  /\ clips_dir = TRUE
  /\ dry_run = FALSE
AppendIdle ==
  /\ source = [tsv |-> FALSE, clips_dir |-> FALSE, header |-> <<>>,
               rows |-> <<>>, clips |-> {}]
  /\ min_words = 0
  /\ num_samples = 0
  /\ source_rows = <<>>
  /\ new_rows = <<>>
  /\ duplicates = 0
  /\ target_dir = TRUE
  /\ target_header = Header

\* no corpus to convert or merge
NoCorpus ==
  [parquet |-> <<>>, wavs |-> <<>>, transcripts |-> <<>>,
   copy1_tsv |-> FALSE, copy1_rows |-> <<>>, copy1_clips |-> {}]
\* no conversion is under way: no clip half written, no worker
ConvertIdle ==
  /\ partial = {} /\ workers = <<>> /\ completed = <<>>
  /\ interrupted = FALSE
\* process_with_hour_limit has not run
HoursIdle ==
  /\ total_hours = 0 /\ temp_dir = <<>> /\ wav_files = <<>>
  /\ selected_files = <<>> /\ current_total_duration = 0 /\ output_dir = {}
ProduceIdle ==
  /\ corpus = NoCorpus
  /\ skip_audio_conversion = FALSE
  /\ sync_files = FALSE
  /\ rebuild_tsv = FALSE
  /\ processed_files = <<>>

LocalsInit ==
  /\ mp3_files = {}
  /\ valid_rows = <<>>
  /\ empty_sentence_mp3s = {}
  /\ valid_mp3s = {}
  /\ extra_mp3s = {}
  /\ consistent = FALSE
  /\ deleted = {}
  /\ effects = {}
  /\ filtered_rows = <<>>
  /\ all_rows = <<>>
  /\ dev_size = 0 /\ test_size = 0 /\ train_size = 0
  /\ dev_tsv = <<>> /\ test_tsv = <<>> /\ train_tsv = <<>>
  /\ total_rows_in_file = 0
  /\ num_to_select = 0
  /\ selected_rows = <<>>

\* ---- fix_dataset_mismatch.py: the run ------------------------------------
FixInit ==
  /\ tool = "fix"
  /\ pc = "scan"
  /\ run = 1
  /\ manifest \in Manifests
  /\ clips \in SUBSET ClipNames
  /\ manifest0 = manifest
  /\ clips0 = clips
  /\ hist = <<>>
  /\ dev_ratio = 0 /\ test_ratio = 0 /\ seed = 0 /\ rng = 0 /\ rng0 = 0
  /\ total_rows = 0
  /\ EnvInit
  /\ AppendIdle
  /\ ProduceIdle
  /\ ConvertIdle
  /\ HoursIdle
  /\ LocalsInit

\* lines 25-32: list the clips directory
FixScan ==
  /\ tool = "fix" /\ pc = "scan"
  /\ mp3_files' = IF clips_dir THEN clips ELSE {}
  /\ effects' = effects \cup {"list_clips"}
  /\ pc' = "read"
  /\ UNCHANGED <<otherVars, ctl, manifest, clips, snap, valid_rows, empty_sentence_mp3s,
                 valid_mp3s, extra_mp3s, consistent, deleted, splitVars>>

\* lines 34-63: read the manifest, keep the rows with a sentence
FixRead ==
  /\ tool = "fix" /\ pc = "read"
  /\ LET sentence_idx == ColumnIndex(Header, "sentence", 3)
     IN /\ valid_rows' = FixFilter(manifest, sentence_idx)
        /\ empty_sentence_mp3s' = FixEmptySentenceMp3s(manifest, sentence_idx)
  /\ effects' = effects \cup {"read_manifest"}
  /\ pc' = "rewrite"
  /\ UNCHANGED <<otherVars, ctl, manifest, clips, snap, mp3_files, valid_mp3s,
                 extra_mp3s, consistent, deleted, splitVars>>

\* lines 65-71: write the kept rows back
FixRewrite ==
  /\ tool = "fix" /\ pc = "rewrite"
  /\ manifest' = valid_rows
  /\ effects' = effects \cup {"write_manifest"}
  /\ pc' = "delete_empty"
  /\ UNCHANGED <<otherVars, ctl, clips, snap, fixLocals, valid_rows, valid_mp3s,
                 deleted, splitVars>>

\* lines 73-90: collect the names the kept rows use, delete the files of
\* the rows with an empty sentence
FixDeleteEmpty ==
  /\ tool = "fix" /\ pc = "delete_empty"
  /\ valid_mp3s' = FixValidMp3s(valid_rows)
  /\ \E o \in UnlinkLoop(clips \cap empty_sentence_mp3s, locked) :
       /\ clips' = clips \ o.removed
       /\ deleted' = deleted \cup o.removed
       /\ effects' = effects \cup UnlinkEvents(o)
       /\ pc' = IF o.raised THEN "error" ELSE "delete_extra"
  /\ UNCHANGED <<otherVars, ctl, manifest, snap, fixLocals, valid_rows, splitVars>>

\* lines 92-104: delete the files no kept row names
FixDeleteExtra ==
  /\ tool = "fix" /\ pc = "delete_extra"
  /\ extra_mp3s' = FixExtraMp3s(mp3_files, valid_mp3s, empty_sentence_mp3s)
  /\ \E o \in UnlinkLoop(clips \cap extra_mp3s', locked) :
       /\ clips' = clips \ o.removed
       /\ deleted' = deleted \cup o.removed
       /\ effects' = effects \cup UnlinkEvents(o)
       /\ pc' = IF o.raised THEN "error" ELSE "check"
  /\ UNCHANGED <<otherVars, ctl, manifest, snap, mp3_files, empty_sentence_mp3s,
                 consistent, valid_rows, valid_mp3s, splitVars>>

\* lines 106-117: the closing count comparison
FixCheck ==
  /\ tool = "fix" /\ pc = "check"
  /\ consistent' = (Cardinality(clips) = Len(valid_rows))
  /\ pc' = "done"
  /\ UNCHANGED <<otherVars, ctl, manifest, clips, snap, mp3_files, empty_sentence_mp3s,
                 extra_mp3s, valid_rows, valid_mp3s, deleted, effects,
                 splitVars>>

\* the script is started again on what the completed run left behind
FixRerun ==
  /\ tool = "fix" /\ pc = "done" /\ run < MaxRuns
  /\ run' = run + 1
  /\ hist' = Append(hist, [rows_removed |-> Len(manifest0) - Len(manifest),
                           deleted |-> deleted])
  /\ manifest0' = manifest
  /\ clips0' = clips
  /\ mp3_files' = {}
  /\ valid_rows' = <<>>
  /\ empty_sentence_mp3s' = {}
  /\ valid_mp3s' = {}
  /\ extra_mp3s' = {}
  /\ consistent' = FALSE
  /\ deleted' = {}
  /\ effects' = {}
  /\ pc' = "scan"
  /\ UNCHANGED <<otherVars, tool, manifest, clips, splitVars>>

FixNext ==
  \/ FixScan
  \/ FixRead
  \/ FixRewrite
  \/ FixDeleteEmpty
  \/ FixDeleteExtra
  \/ FixCheck
  \/ FixRerun

SpecFix == FixInit /\ [][FixNext]_vars

\* ---- create_tsv_files_by_custom_validated_tsv.py: the run ----------------
SplitInit ==
  /\ tool = "split"
  /\ pc = "check_ratio"
  /\ run = 1
  /\ \/ /\ manifest \in SplitManifests
        /\ clips \in SUBSET ClipNames
        /\ dev_ratio = 2 /\ test_ratio = 2
        /\ seed = 42
        /\ rng = 0
     \/ /\ manifest \in LongManifests
        /\ clips = LongClips
        /\ dev_ratio \in RatioNums /\ test_ratio \in RatioNums
        /\ seed \in Seeds
        /\ rng \in Entropy
  /\ rng0 = rng
  /\ total_rows = 0
  /\ manifest0 = manifest
  /\ clips0 = clips
  /\ hist = <<>>
  /\ EnvInit
  /\ AppendIdle
  /\ ProduceIdle
  /\ ConvertIdle
  /\ HoursIdle
  /\ LocalsInit

\* lines 130-132: the ratio check; ValueError ends the run
SplitCheckRatio ==
  /\ tool = "split" /\ pc = "check_ratio"
  /\ pc' = IF RatioRejected(dev_ratio, test_ratio) THEN "error" ELSE "read"
  /\ UNCHANGED <<otherVars, ctl, manifest, clips, snap, fixLocals, valid_rows,
                 valid_mp3s, deleted, effects, splitVars>>

\* lines 134-153: read the manifest, keep the rows with a sentence
SplitRead ==
  /\ tool = "split" /\ pc = "read"
  /\ filtered_rows' = FixFilter(manifest, ColumnIndex(Header, "sentence", 2))
  /\ effects' = effects \cup {"read_manifest"}
  /\ pc' = "rewrite"
  /\ UNCHANGED <<otherVars, ctl, manifest, clips, snap, fixLocals, valid_rows,
                 valid_mp3s, deleted, splitArgs, rng0, rng, all_rows, sizes, outs,
                 trainVars>>

\* lines 155-161: write the kept rows back
SplitRewrite ==
  /\ tool = "split" /\ pc = "rewrite"
  /\ manifest' = filtered_rows
  /\ effects' = effects \cup {"write_manifest"}
  /\ pc' = "delete"
  /\ UNCHANGED <<otherVars, ctl, clips, snap, fixLocals, valid_rows, valid_mp3s,
                 deleted, splitVars>>

\* lines 163-183: delete every clip no kept row names
SplitDelete ==
  /\ tool = "split" /\ pc = "delete"
  /\ valid_mp3s' = SplitValidMp3s(filtered_rows)
  /\ IF clips_dir
     THEN \E o \in UnlinkLoop(clips \ valid_mp3s', locked) :
            /\ clips' = clips \ o.removed
            /\ deleted' = deleted \cup o.removed
            /\ effects' = effects \cup {"list_clips"} \cup UnlinkEvents(o)
            /\ pc' = IF o.raised THEN "error" ELSE "shuffle"
     ELSE /\ pc' = "shuffle"
          /\ UNCHANGED <<clips, deleted, effects>>
  /\ UNCHANGED <<otherVars, ctl, manifest, snap, fixLocals, valid_rows, splitVars>>

\* lines 185-191: seed the generator and shuffle the kept rows
SplitShuffle ==
  /\ tool = "split" /\ pc = "shuffle"
  /\ LET sh == Shuffle(filtered_rows, RngSeed(seed))
     IN /\ all_rows' = sh.rows
        /\ rng' = sh.rng
  /\ pc' = "sizes"
  /\ UNCHANGED <<otherVars, ctl, manifest, clips, snap, fixLocals, valid_rows,
                 valid_mp3s, deleted, effects, splitArgs, rng0,
                 filtered_rows, sizes, outs, trainVars>>

\* lines 193-238: the three sizes and the first assertion
SplitComputeSizes ==
  /\ tool = "split" /\ pc = "sizes"
  /\ LET sz == SplitSizes(Len(all_rows), dev_ratio, test_ratio)
     IN /\ dev_size' = sz.dev
        /\ test_size' = sz.test
        /\ train_size' = sz.train
        /\ pc' = IF sz.dev + sz.test + sz.train = Len(all_rows)
                 THEN "write" ELSE "assert_failed"
  /\ UNCHANGED <<otherVars, ctl, manifest, clips, snap, fixLocals, valid_rows,
                 valid_mp3s, deleted, effects, splitArgs, rng0, rng,
                 filtered_rows, all_rows, outs, trainVars>>

\* lines 240-260: slice, the second assertion, write the three files
SplitWrite ==
  /\ tool = "split" /\ pc = "write"
  /\ LET dev_rows == SplitDevRows(all_rows, dev_size, test_size)
         test_rows == SplitTestRows(all_rows, dev_size, test_size)
         train_rows == SplitTrainRows(all_rows, dev_size, test_size)
     IN IF Len(dev_rows) + Len(test_rows) + Len(train_rows) = Len(all_rows)
        THEN /\ dev_tsv' = dev_rows
             /\ test_tsv' = test_rows
             /\ train_tsv' = train_rows
             /\ effects' = effects \cup {"write_splits"}
             /\ pc' = "done"
        ELSE /\ pc' = "assert_failed"
             /\ UNCHANGED <<outs, effects>>
  /\ UNCHANGED <<otherVars, ctl, manifest, clips, snap, fixLocals, valid_rows,
                 valid_mp3s, deleted, splitArgs, rng0, rng, filtered_rows,
                 all_rows, sizes, trainVars>>

\* a new process runs the tool again with the same arguments on the same
\* manifest rows (the input file put back)
SplitRerun ==
  /\ tool = "split" /\ pc = "done" /\ run < MaxRuns
  /\ run' = run + 1
  /\ hist' = Append(hist, [input |-> manifest0, clips |-> clips0,
                           rng0 |-> rng0, dev |-> dev_tsv,
                           test |-> test_tsv, train |-> train_tsv])
  /\ manifest' = manifest0
  /\ clips0' = clips
  /\ rng' \in Entropy
  /\ rng0' = rng'
  /\ filtered_rows' = <<>>
  /\ all_rows' = <<>>
  /\ valid_mp3s' = {}
  /\ deleted' = {}
  /\ effects' = {}
  /\ dev_size' = 0 /\ test_size' = 0 /\ train_size' = 0
  /\ pc' = "check_ratio"
  /\ UNCHANGED <<otherVars, tool, clips, manifest0, fixLocals, valid_rows, splitArgs,
                 outs, trainVars>>

SplitNext ==
  \/ SplitCheckRatio
  \/ SplitRead
  \/ SplitRewrite
  \/ SplitDelete
  \/ SplitShuffle
  \/ SplitComputeSizes
  \/ SplitWrite
  \/ SplitRerun

\* ---- create-training-tsv-files-based-on-mp3-files.py ---------------------
\* int(num / den): truncation towards zero
PyInt(num, den) == IF num >= 0 THEN num \div den ELSE -((-num) \div den)
\* lines 89-122: select_random_rows; the kept rows stay in file order
SelectRandomRows(rows, total, num, random_seed) ==
  IF 2 * num > total
  THEN LET sm == Sample(total, total - num, RngSeed(random_seed))
       IN [rows |-> [k \in 1..Cardinality({i \in DOMAIN rows : i \notin sm.picked}) |->
                       rows[CHOOSE i \in DOMAIN rows :
                              /\ i \notin sm.picked
                              /\ Cardinality({j \in 1..i : j \notin sm.picked}) = k]],
           rng |-> sm.rng]
  ELSE LET sm == Sample(total, num, RngSeed(random_seed))
       IN [rows |-> [k \in 1..Cardinality({i \in DOMAIN rows : i \in sm.picked}) |->
                       rows[CHOOSE i \in DOMAIN rows :
                              /\ i \in sm.picked
                              /\ Cardinality({j \in 1..i : j \in sm.picked}) = k]],
           rng |-> sm.rng]
\* lines 155-157
TrainSizes(n, dev_num, test_num) ==
  LET d == PyInt(n * dev_num, RatioDen)
      t == PyInt(n * test_num, RatioDen)
  IN [dev |-> d, test |-> t, train |-> n - d - t]
\* lines 174-177: row[1] of every selected row
TrainSelectedMp3s(rows) == {rows[i][2] : i \in DOMAIN rows}

TrainInit ==
  /\ tool = "train"
  /\ pc = "check_ratio"
  /\ run = 1
  /\ \/ /\ manifest \in SplitManifests
        /\ clips \in SUBSET ClipNames
        /\ dev_ratio = 2 /\ test_ratio = 2
        /\ seed = 42
        /\ rng = 0
        /\ total_rows \in {2, MaxN + 1}
     \/ /\ manifest \in LongManifests
        /\ clips = LongClips
        /\ dev_ratio \in RatioNums /\ test_ratio \in RatioNums
        /\ seed \in Seeds
        /\ rng \in Entropy
        /\ total_rows \in TotalRowsArgs
  /\ rng0 = rng
  /\ manifest0 = manifest
  /\ clips0 = clips
  /\ hist = <<>>
  /\ EnvInit
  /\ AppendIdle
  /\ ProduceIdle
  /\ ConvertIdle
  /\ HoursIdle
  /\ LocalsInit

\* lines 136-138: the ratio check; ValueError ends the run
TrainCheckRatio ==
  /\ tool = "train" /\ pc = "check_ratio"
  /\ pc' = IF RatioRejected(dev_ratio, test_ratio) THEN "error" ELSE "count"
  /\ UNCHANGED <<otherVars, ctl, manifest, clips, snap, fixLocals, valid_rows,
                 valid_mp3s, deleted, effects, splitVars>>

\* lines 140-144: count the data rows of the manifest
TrainCount ==
  /\ tool = "train" /\ pc = "count"
  /\ total_rows_in_file' = Len(manifest)
  /\ num_to_select' = Min(total_rows, Len(manifest))
  /\ effects' = effects \cup {"read_manifest"}
  /\ pc' = "select"
  /\ UNCHANGED <<otherVars, ctl, manifest, clips, snap, fixLocals, valid_rows,
                 valid_mp3s, deleted, splitArgs, rng0, rng, filtered_rows,
                 all_rows, sizes, outs, total_rows, selected_rows>>

\* lines 146-149: seed the generator and sample the rows
TrainSelect ==
  /\ tool = "train" /\ pc = "select"
  /\ LET sel == SelectRandomRows(manifest, total_rows_in_file, num_to_select, seed)
     IN /\ selected_rows' = sel.rows
        /\ rng' = sel.rng
  /\ pc' = "shuffle"
  /\ UNCHANGED <<otherVars, ctl, manifest, clips, snap, fixLocals, valid_rows,
                 valid_mp3s, deleted, effects, splitArgs, rng0, filtered_rows,
                 all_rows, sizes, outs, total_rows, total_rows_in_file,
                 num_to_select>>

\* line 152: shuffle the selected rows with the generator as it stands
TrainShuffle ==
  /\ tool = "train" /\ pc = "shuffle"
  /\ LET sh == Shuffle(selected_rows, rng)
     IN /\ selected_rows' = sh.rows
        /\ rng' = sh.rng
  /\ pc' = "sizes"
  /\ UNCHANGED <<otherVars, ctl, manifest, clips, snap, fixLocals, valid_rows,
                 valid_mp3s, deleted, effects, splitArgs, rng0, filtered_rows,
                 all_rows, sizes, outs, total_rows, total_rows_in_file,
                 num_to_select>>

\* lines 154-161
TrainComputeSizes ==
  /\ tool = "train" /\ pc = "sizes"
  /\ LET sz == TrainSizes(num_to_select, dev_ratio, test_ratio)
     IN /\ dev_size' = sz.dev
        /\ test_size' = sz.test
        /\ train_size' = sz.train
  /\ pc' = "write"
  /\ UNCHANGED <<otherVars, ctl, manifest, clips, snap, fixLocals, valid_rows,
                 valid_mp3s, deleted, effects, splitArgs, rng0, rng,
                 filtered_rows, all_rows, outs, trainVars>>

\* lines 163-171: slice and write the three files
TrainWrite ==
  /\ tool = "train" /\ pc = "write"
  /\ dev_tsv' = SplitDevRows(selected_rows, dev_size, test_size)
  /\ test_tsv' = SplitTestRows(selected_rows, dev_size, test_size)
  /\ train_tsv' = SplitTrainRows(selected_rows, dev_size, test_size)
  /\ effects' = effects \cup {"write_splits"}
  /\ pc' = "delete"
  /\ UNCHANGED <<otherVars, ctl, manifest, clips, snap, fixLocals, valid_rows,
                 valid_mp3s, deleted, splitArgs, rng0, rng, filtered_rows,
                 all_rows, sizes, trainVars>>

\* lines 173-192: delete the clips no selected row names; row[1] of a row
\* with a single field raises IndexError
TrainDelete ==
  /\ tool = "train" /\ pc = "delete"
  /\ IF \E i \in DOMAIN selected_rows : Len(selected_rows[i]) < 2
     THEN /\ pc' = "error"
          /\ UNCHANGED <<clips, deleted, effects>>
     ELSE LET selected_mp3s == TrainSelectedMp3s(selected_rows)
              unneeded == {f \in clips : <<f>> \notin selected_mp3s}
          IN IF clips_dir
             THEN \E o \in UnlinkLoop(unneeded, locked) :
                    /\ clips' = clips \ o.removed
                    /\ deleted' = deleted \cup o.removed
                    /\ effects' = effects \cup {"list_clips"} \cup UnlinkEvents(o)
                    /\ pc' = IF o.raised THEN "error" ELSE "done"
             ELSE /\ pc' = "done"
                  /\ UNCHANGED <<clips, deleted, effects>>
  /\ UNCHANGED <<otherVars, ctl, manifest, snap, fixLocals, valid_rows, valid_mp3s,
                 splitVars>>

\* a new process runs the tool again with the same arguments on the same
\* manifest
TrainRerun ==
  /\ tool = "train" /\ pc = "done" /\ run < MaxRuns
  /\ run' = run + 1
  /\ hist' = Append(hist, [input |-> manifest0, clips |-> clips0,
                           rng0 |-> rng0, dev |-> dev_tsv,
                           test |-> test_tsv, train |-> train_tsv])
  /\ clips0' = clips
  /\ rng' \in Entropy
  /\ rng0' = rng'
  /\ total_rows_in_file' = 0
  /\ num_to_select' = 0
  /\ selected_rows' = <<>>
  /\ deleted' = {}
  /\ effects' = {}
  /\ dev_size' = 0 /\ test_size' = 0 /\ train_size' = 0
  /\ pc' = "check_ratio"
  /\ UNCHANGED <<otherVars, tool, manifest, clips, manifest0, fixLocals, valid_rows,
                 valid_mp3s, splitArgs, filtered_rows, all_rows, outs,
                 total_rows>>

TrainNext ==
  \/ TrainCheckRatio
  \/ TrainCount
  \/ TrainSelect
  \/ TrainShuffle
  \/ TrainComputeSizes
  \/ TrainWrite
  \/ TrainDelete
  \/ TrainRerun

SplitToolsInit == SplitInit \/ TrainInit
SplitToolsNext == SplitNext \/ TrainNext
SpecSplit == SplitToolsInit /\ [][SplitToolsNext]_vars

\* ---- python/create_tsv_files_by_custom_validated_tsv.py ------------------
\* lines 215-219: row[1] of every row, as it stands in the file
PySelectedMp3s(rows) == {rows[i][2] : i \in DOMAIN rows}

\* lines 130-132: the ratio check; ValueError ends the run
PyCheckRatio ==
  /\ tool = "split_py" /\ pc = "check_ratio"
  /\ pc' = IF RatioRejected(dev_ratio, test_ratio) THEN "error" ELSE "read"
  /\ UNCHANGED <<otherVars, ctl, manifest, clips, snap, fixLocals, valid_rows,
                 valid_mp3s, deleted, effects, splitVars>>

\* lines 134-146: read every row of the manifest, seed and shuffle
PyReadShuffle ==
  /\ tool = "split_py" /\ pc = "read"
  /\ LET sh == Shuffle(manifest, RngSeed(seed))
     IN /\ all_rows' = sh.rows
        /\ rng' = sh.rng
  /\ effects' = effects \cup {"read_manifest"}
  /\ pc' = "sizes"
  /\ UNCHANGED <<otherVars, ctl, manifest, clips, snap, fixLocals, valid_rows,
                 valid_mp3s, deleted, splitArgs, rng0, filtered_rows, sizes,
                 outs, trainVars>>

\* lines 148-193: the three sizes and the first assertion
PyComputeSizes ==
  /\ tool = "split_py" /\ pc = "sizes"
  /\ LET sz == SplitSizes(Len(all_rows), dev_ratio, test_ratio)
     IN /\ dev_size' = sz.dev
        /\ test_size' = sz.test
        /\ train_size' = sz.train
        /\ pc' = IF sz.dev + sz.test + sz.train = Len(all_rows)
                 THEN "write" ELSE "assert_failed"
  /\ UNCHANGED <<otherVars, ctl, manifest, clips, snap, fixLocals, valid_rows,
                 valid_mp3s, deleted, effects, splitArgs, rng0, rng,
                 filtered_rows, all_rows, outs, trainVars>>

\* lines 195-207: slice, the second assertion, write the three files
PyWrite ==
  /\ tool = "split_py" /\ pc = "write"
  /\ LET dev_rows == SplitDevRows(all_rows, dev_size, test_size)
         test_rows == SplitTestRows(all_rows, dev_size, test_size)
         train_rows == SplitTrainRows(all_rows, dev_size, test_size)
     IN IF Len(dev_rows) + Len(test_rows) + Len(train_rows) = Len(all_rows)
        THEN /\ dev_tsv' = dev_rows
             /\ test_tsv' = test_rows
             /\ train_tsv' = train_rows
             /\ effects' = effects \cup {"write_splits"}
             /\ pc' = "delete"
        ELSE /\ pc' = "assert_failed"
             /\ UNCHANGED <<outs, effects>>
  /\ UNCHANGED <<otherVars, ctl, manifest, clips, snap, fixLocals, valid_rows,
                 valid_mp3s, deleted, splitArgs, rng0, rng, filtered_rows,
                 all_rows, sizes, trainVars>>

\* lines 215-268: collect row[1] of every row (IndexError on a row with a
\* single field), then unlink every clip that is not among them
PyDelete ==
  /\ tool = "split_py" /\ pc = "delete"
  /\ IF \E i \in DOMAIN all_rows : Len(all_rows[i]) < 2
     THEN /\ pc' = "error"
          /\ effects' = effects \cup {"index_error"}
          /\ UNCHANGED <<clips, deleted>>
     ELSE LET selected_mp3s == PySelectedMp3s(all_rows)
              unneeded == {f \in clips : <<f>> \notin selected_mp3s}
          IN IF clips_dir
             THEN \E o \in UnlinkLoop(unneeded, locked) :
                    /\ clips' = clips \ o.removed
                    /\ deleted' = deleted \cup o.removed
                    /\ effects' = effects \cup {"list_clips"} \cup UnlinkEvents(o)
                    /\ pc' = IF o.raised THEN "error" ELSE "done"
             ELSE /\ pc' = "done"
                  /\ UNCHANGED <<clips, deleted, effects>>
  /\ UNCHANGED <<otherVars, ctl, manifest, snap, fixLocals, valid_rows,
                 valid_mp3s, splitVars>>

\* ---- test-python/create-three-tsv-files-based-on-validated-tsv.py --------
\* line 154: row[sentence_idx].strip(), with no look at the length of the row
ThreeFilter(rows, sentence_idx) ==
  SelectSeq(rows, LAMBDA r : Strip(r[sentence_idx + 1]) # <<>>)
\* line 157: row[path_idx] of the rows that are not kept
ThreeEmptySentenceMp3s(rows, sentence_idx, path_idx) ==
  {rows[i][path_idx + 1] :
     i \in {j \in DOMAIN rows : Strip(rows[j][sentence_idx + 1]) = <<>>}}

\* lines 136-138: the ratio check; ValueError ends the run
ThreeCheckRatio ==
  /\ tool = "three" /\ pc = "check_ratio"
  /\ pc' = IF RatioRejected(dev_ratio, test_ratio) THEN "error" ELSE "read"
  /\ UNCHANGED <<otherVars, ctl, manifest, clips, snap, fixLocals, valid_rows,
                 valid_mp3s, deleted, effects, splitVars>>

\* lines 140-158: keep the rows with a sentence; row[sentence_idx] of a row
\* that is too short raises IndexError
ThreeRead ==
  /\ tool = "three" /\ pc = "read"
  /\ LET sentence_idx == ColumnIndex(Header, "sentence", 2)
         path_idx == ColumnIndex(Header, "path", 1)
     IN IF \E i \in DOMAIN manifest : Len(manifest[i]) <= sentence_idx
        THEN /\ pc' = "error"
             /\ effects' = effects \cup {"read_manifest", "index_error"}
             /\ UNCHANGED <<filtered_rows, empty_sentence_mp3s>>
        ELSE /\ filtered_rows' = ThreeFilter(manifest, sentence_idx)
             /\ empty_sentence_mp3s' =
                  ThreeEmptySentenceMp3s(manifest, sentence_idx, path_idx)
             /\ effects' = effects \cup {"read_manifest"}
             /\ pc' = "delete_empty"
  /\ UNCHANGED <<otherVars, ctl, manifest, clips, snap, mp3_files, extra_mp3s,
                 consistent, valid_rows, valid_mp3s, deleted, splitArgs, rng0,
                 rng, all_rows, sizes, outs, trainVars>>

\* lines 160-167: unlink the clips of the rows without a sentence
ThreeDeleteEmpty ==
  /\ tool = "three" /\ pc = "delete_empty"
  /\ IF clips_dir
     THEN \E o \in UnlinkLoop({f \in clips : <<f>> \in empty_sentence_mp3s},
                              locked) :
            /\ clips' = clips \ o.removed
            /\ deleted' = deleted \cup o.removed
            /\ effects' = effects \cup UnlinkEvents(o)
            /\ pc' = IF o.raised THEN "error" ELSE "select"
     ELSE /\ pc' = "select"
          /\ UNCHANGED <<clips, deleted, effects>>
  /\ UNCHANGED <<otherVars, ctl, manifest, snap, fixLocals, valid_rows,
                 valid_mp3s, splitVars>>

\* lines 169-181: seed, shuffle, take the first num_to_select rows
ThreeSelect ==
  /\ tool = "three" /\ pc = "select"
  /\ total_rows_in_file' = Len(filtered_rows)
  /\ num_to_select' = Min(total_rows, Len(filtered_rows))
  /\ LET sh == Shuffle(filtered_rows, RngSeed(seed))
     IN /\ all_rows' = sh.rows
        /\ selected_rows' = PySlice(sh.rows, 0, num_to_select')
        /\ rng' = sh.rng
  /\ pc' = "sizes"
  /\ UNCHANGED <<otherVars, ctl, manifest, clips, snap, fixLocals, valid_rows,
                 valid_mp3s, deleted, effects, splitArgs, rng0, filtered_rows,
                 sizes, outs, total_rows>>

\* lines 183-226: the three sizes and the first assertion
ThreeComputeSizes ==
  /\ tool = "three" /\ pc = "sizes"
  /\ LET sz == SplitSizes(num_to_select, dev_ratio, test_ratio)
     IN /\ dev_size' = sz.dev
        /\ test_size' = sz.test
        /\ train_size' = sz.train
        /\ pc' = IF sz.dev + sz.test + sz.train = num_to_select
                 THEN "write" ELSE "assert_failed"
  /\ UNCHANGED <<otherVars, ctl, manifest, clips, snap, fixLocals, valid_rows,
                 valid_mp3s, deleted, effects, splitArgs, rng0, rng,
                 filtered_rows, all_rows, outs, trainVars>>

\* lines 228-257: slice, the second assertion, write the three files
ThreeWrite ==
  /\ tool = "three" /\ pc = "write"
  /\ LET dev_rows == SplitDevRows(selected_rows, dev_size, test_size)
         test_rows == SplitTestRows(selected_rows, dev_size, test_size)
         train_rows == SplitTrainRows(selected_rows, dev_size, test_size)
     IN IF Len(dev_rows) + Len(test_rows) + Len(train_rows) = Len(selected_rows)
        THEN /\ dev_tsv' = dev_rows
             /\ test_tsv' = test_rows
             /\ train_tsv' = train_rows
             /\ effects' = effects \cup {"write_splits"}
             /\ pc' = "done"
        ELSE /\ pc' = "assert_failed"
             /\ UNCHANGED <<outs, effects>>
  /\ UNCHANGED <<otherVars, ctl, manifest, clips, snap, fixLocals, valid_rows,
                 valid_mp3s, deleted, splitArgs, rng0, rng, filtered_rows,
                 all_rows, sizes, trainVars>>

\* ---- delete_mp3_which_not_in_tsv_in_clips_folder.py ----------------------
\* lines 36-38: row[1] of the rows with at least two fields
DeleteValidMp3s(rows) ==
  {rows[i][2] : i \in {j \in DOMAIN rows : Len(rows[j]) >= 2}}
\* line 51
DeleteToDelete(files, valid) == {f \in files : <<f>> \notin valid}
\* lines 55-64: os.remove in try / except, one file at a time
RemoveEach(files, cannot) ==
  {[removed |-> files \ cannot, failed |-> files \cap cannot # {},
    raised |-> FALSE]}

\* lines 30-40: collect the names the manifest holds
DeleteRead ==
  /\ tool = "delete" /\ pc = "read"
  /\ valid_mp3s' = DeleteValidMp3s(manifest)
  /\ effects' = effects \cup {"read_manifest"}
  /\ pc' = "delete"
  /\ UNCHANGED <<otherVars, ctl, manifest, clips, snap, fixLocals, valid_rows,
                 deleted, splitVars>>

\* lines 42-69: without the directory print an error and return; else list
\* it and remove, or with --dry-run only print, every clip not in the set
DeleteRun ==
  /\ tool = "delete" /\ pc = "delete"
  /\ IF ~clips_dir
     THEN /\ pc' = "done"
          /\ UNCHANGED <<mp3_files, extra_mp3s, clips, deleted, effects>>
     ELSE /\ mp3_files' = clips
          /\ extra_mp3s' = DeleteToDelete(clips, valid_mp3s)
          /\ IF dry_run
             THEN /\ effects' = effects \cup {"list_clips"}
                  /\ UNCHANGED <<clips, deleted>>
             ELSE \E o \in RemoveEach(extra_mp3s', locked) :
                    /\ clips' = clips \ o.removed
                    /\ deleted' = deleted \cup o.removed
                    /\ effects' = effects \cup {"list_clips"} \cup UnlinkEvents(o)
          /\ pc' = "done"
  /\ UNCHANGED <<otherVars, ctl, manifest, snap, empty_sentence_mp3s,
                 consistent, valid_rows, valid_mp3s, splitVars>>

\* line 67: the number the run reports as deleted is the length of to_delete
DeleteSummary == [deleted |-> Cardinality(extra_mp3s)]

\* ---- python/delete-unwanted-mp3-files.py ---------------------------------
\* lines 10-28: without mp3-name.txt or without the clips directory print an
\* error and exit 1; else collect the stripped, non-empty lines of the file
\* (allowed_mp3_files, kept in valid_mp3s)
UnwantedRead ==
  /\ tool = "unwanted" /\ pc = "read"
  /\ \E names_file \in BOOLEAN, allowed \in SUBSET ClipNames :
       IF ~names_file \/ ~clips_dir
       THEN /\ pc' = "exit1"
            /\ UNCHANGED valid_mp3s
       ELSE /\ pc' = "delete"
            /\ valid_mp3s' = {<<f>> : f \in allowed}
  /\ UNCHANGED <<otherVars, ctl, manifest, clips, snap, fixLocals, valid_rows,
                 deleted, effects, splitVars>>

\* lines 30-42: os.remove in try / except for every *.mp3 of the directory
\* that is not allowed; deleted_count counts the removals that succeeded
UnwantedRun ==
  /\ tool = "unwanted" /\ pc = "delete"
  /\ mp3_files' = clips
  /\ \E o \in RemoveEach(DeleteToDelete(clips, valid_mp3s), locked) :
       /\ clips' = clips \ o.removed
       /\ deleted' = deleted \cup o.removed
       /\ effects' = effects \cup {"list_clips"} \cup UnlinkEvents(o)
  /\ pc' = "done"
  /\ UNCHANGED <<otherVars, ctl, manifest, snap, empty_sentence_mp3s,
                 extra_mp3s, consistent, valid_rows, valid_mp3s, splitVars>>

\* line 44: the summary prints deleted_count
UnwantedSummary == [deleted |-> Cardinality(deleted)]

\* ---- the reconciliation and split tools on one manifest, in an
\* environment where the clips directory may be missing and a clip may not
\* be deletable
ReconcileTools == {"fix", "split", "split_py", "three", "delete"}
ToolsInit ==
  /\ tool \in ReconcileTools
  /\ pc = CASE tool = "fix" -> "scan"
            [] tool = "delete" -> "read"
            [] OTHER -> "check_ratio"
  /\ run = 1
  /\ manifest \in SplitManifests
  /\ clips_dir \in BOOLEAN
  /\ clips \in IF clips_dir THEN SUBSET ClipNames ELSE {{}}
  /\ locked \in SUBSET clips
  /\ dry_run \in IF tool = "delete" THEN BOOLEAN ELSE {FALSE}
  /\ dev_ratio = 2 /\ test_ratio = 2
  /\ seed = 42
  /\ rng = 0
  /\ rng0 = rng
  /\ total_rows \in IF tool = "three" THEN {2, MaxN + 1} ELSE {0}
  /\ manifest0 = manifest
  /\ clips0 = clips
  /\ hist = <<>>
  /\ AppendIdle
  /\ ProduceIdle
  /\ ConvertIdle
  /\ HoursIdle
  /\ LocalsInit

ToolsNext ==
  \/ FixScan
  \/ FixRead
  \/ FixRewrite
  \/ FixDeleteEmpty
  \/ FixDeleteExtra
  \/ FixCheck
  \/ SplitCheckRatio
  \/ SplitRead
  \/ SplitRewrite
  \/ SplitDelete
  \/ SplitShuffle
  \/ SplitComputeSizes
  \/ SplitWrite
  \/ PyCheckRatio
  \/ PyReadShuffle
  \/ PyComputeSizes
  \/ PyWrite
  \/ PyDelete
  \/ ThreeCheckRatio
  \/ ThreeRead
  \/ ThreeDeleteEmpty
  \/ ThreeSelect
  \/ ThreeComputeSizes
  \/ ThreeWrite
  \/ DeleteRead
  \/ DeleteRun

SpecTools == ToolsInit /\ [][ToolsNext]_vars

\* ---- append_cv_corpus_to_this_concise_ds_1000.py -------------------------
\* the sentences the append tool is tried on: none, blank, two words, three
\* words with and without a leading blank, three other words
NoWords == <<>>
Blank == <<" ">>
TwoWords == <<"a", " ", "b">>
ThreeWords == <<"a", " ", "b", " ", "c">>
ThreeWordsPadded == <<" ", "a", " ", "b", " ", "c">>
OtherWords == <<"b", " ", "c", " ", "d">>
\* rows of the source train.tsv: two with one sentence, two with one name,
\* without a sentence, without a path, with a single field
AppendRows ==
  {<<"c", <<"a.mp3">>, "s", ThreeWords>>,
   <<"c", <<"b.mp3">>, "s", ThreeWordsPadded>>,
   <<"c", <<"d", "a.mp3">>, "s", TwoWords>>,
   <<"c", <<"b.mp3">>, "s", NoWords>>,
   <<"c", <<"e.mp3">>, "s", Blank>>,
   <<"c", <<>>, "s", OtherWords>>,
   <<"c">>}
SourceManifests == SeqUpTo(AppendRows, MaxRows)
\* target manifests: none, a row with the name a.mp3, a row with the three
\* words, a row with a blank sentence, rows without a sentence or a path
TargetManifests ==
  {<<>>,
   <<<<"c", <<"a.mp3">>, "s", <<"x">>>>>>,
   <<<<"c", <<"z.mp3">>, "s", ThreeWords>>>>,
   <<<<"c", <<"z.mp3">>, "s", Blank>>>>,
   <<<<"c", <<>>, "s", NoWords>>, <<"c">>>>}
SourceClips == {"a.mp3", "b.mp3"}
\* values of --min-words and --num-samples tried (1000 is the default)
MinWordsArgs == {0, 1, 3}
NumSamplesArgs == {0, 1, 2, 1000}

\* str.isspace and len(str.split())
IsSpace(s) == s # <<>> /\ \A i \in DOMAIN s : s[i] \in Whitespace
WordCount(s) ==
  Cardinality({i \in DOMAIN s :
                 s[i] \notin Whitespace /\ (i = 1 \/ s[i - 1] \in Whitespace)})
\* lines 96-100: count_words
CountWords(sentence) ==
  IF sentence = <<>> \/ IsSpace(sentence) THEN 0
  ELSE WordCount(Strip(sentence))
\* lines 102-126: verify_tsv_fields
VerifyTsvFields(header) ==
  /\ Len(header) >= 4
  /\ header[1] = "client_id" /\ header[2] = "path" /\ header[4] = "sentence"
\* random.sample(x, k): k draws from a shrinking pool, in the order drawn
RECURSIVE SampleListFrom(_, _, _, _)
SampleListFrom(pool, k, r, acc) ==
  IF k <= 0 THEN [rows |-> acc, rng |-> r]
  ELSE LET r2 == RngNext(r)
           n == Len(pool)
           j == (r2 % n) + 1
       IN SampleListFrom(SubSeq([pool EXCEPT ![j] = pool[n]], 1, n - 1),
                         k - 1, r2, Append(acc, pool[j]))
SampleList(x, k, r) == SampleListFrom(x, k, r, <<>>)
\* lines 142-149: the rows of the source with four columns and enough words
ReadSourceEligible(rows, min) ==
  SelectSeq(rows, LAMBDA row : Len(row) >= 4 /\ CountWords(row[4]) >= min)
\* lines 128-159: read_source_data
ReadSourceData(rows, num, min, random_seed) ==
  LET eligible == ReadSourceEligible(rows, min)
  IN IF 0 < num /\ num < Len(eligible)
     THEN SampleList(eligible, num, RngSeed(random_seed))
     ELSE [rows |-> eligible, rng |-> rng]
\* lines 197-201: the names and the sentences the rows hold
ExistingPaths(rows) ==
  {Basename(rows[i][2]) :
     i \in {j \in DOMAIN rows : Len(rows[j]) > 1 /\ rows[j][2] # <<>>}}
ExistingSentences(rows) ==
  {Strip(rows[i][4]) :
     i \in {j \in DOMAIN rows : Len(rows[j]) > 3 /\ rows[j][4] # <<>>}}
\* lines 208-218
IsDuplicate_pathOnly(row, existing_paths, existing_sentences) ==
  Len(row) > 1 /\ row[2] # <<>> /\ Basename(row[2]) \in existing_paths
IsDuplicate(row, existing_paths, existing_sentences) ==
  \/ Len(row) > 1 /\ row[2] # <<>> /\ Basename(row[2]) \in existing_paths
  \/ Len(row) > 3 /\ row[4] # <<>> /\ Strip(row[4]) \in existing_sentences
\* lines 203-229: the loop of append_data over the source rows
RECURSIVE AppendScan(_, _, _, _, _)
AppendScan(rows, i, existing_paths, existing_sentences, acc) ==
  IF i > Len(rows) THEN acc
  ELSE IF IsDuplicate(rows[i], existing_paths, existing_sentences)
       THEN AppendScan(rows, i + 1, existing_paths, existing_sentences,
                       [acc EXCEPT !.duplicates = @ + 1])
       ELSE AppendScan(rows, i + 1,
                       existing_paths \cup ExistingPaths(<<rows[i]>>),
                       existing_sentences \cup ExistingSentences(<<rows[i]>>),
                       [acc EXCEPT !.new_rows = Append(@, rows[i])])
AppendData(src, target_rows) ==
  AppendScan(src, 1, ExistingPaths(target_rows),
             ExistingSentences(target_rows),
             [new_rows |-> <<>>, duplicates |-> 0])
\* lines 386-414: the loop of the --dry-run branch of main
DryRunScan(src, target_rows) ==
  LET dup(i) == IsDuplicate(src[i], ExistingPaths(target_rows),
                            ExistingSentences(target_rows))
  IN [new_rows |-> SelectSeq(src, LAMBDA row :
                     ~IsDuplicate(row, ExistingPaths(target_rows),
                                  ExistingSentences(target_rows))),
      duplicates |-> Cardinality({i \in DOMAIN src : dup(i)})]
\* lines 263-277: the clips copy_mp3_files finds in the source directory
CopiedMp3s(rows, source_clips) ==
  {Basename(rows[i][2]) :
     i \in {j \in DOMAIN rows : Len(rows[j]) > 1 /\ rows[j][2] # <<>>}}
    \cap source_clips

AppendInit ==
  /\ tool = "append"
  /\ pc = "check_source"
  /\ run = 1
  /\ \/ /\ source \in [tsv : {TRUE}, clips_dir : {TRUE}, header : {Header},
                       rows : SourceManifests, clips : {SourceClips}]
        /\ min_words \in MinWordsArgs
        /\ \/ /\ num_samples = 1000
              /\ manifest \in TargetManifests
              /\ dry_run \in BOOLEAN
           \/ /\ num_samples \in NumSamplesArgs
              /\ manifest = <<>>
              /\ dry_run = FALSE
     \/ /\ source \in [tsv : BOOLEAN, clips_dir : BOOLEAN,
                       header : {Header, <<"path", "sentence">>},
                       rows : {<<>>}, clips : {{}}]
        /\ min_words = 3
        /\ num_samples = 1000
        /\ manifest = <<>>
        /\ dry_run = FALSE
  /\ target_dir \in IF manifest = <<>> THEN BOOLEAN ELSE {TRUE}
  /\ target_header \in IF manifest = <<>> THEN {<<>>}
                       ELSE {Header, <<"path", "sentence">>}
  /\ clips_dir \in IF target_dir THEN BOOLEAN ELSE {FALSE}
  /\ clips = IF clips_dir THEN {"a.mp3", "z.mp3"} ELSE {}
  /\ locked = {}
  /\ dev_ratio = 0 /\ test_ratio = 0
  /\ seed = 42
  /\ rng = 0
  /\ rng0 = rng
  /\ total_rows = 0
  /\ manifest0 = manifest
  /\ clips0 = clips
  /\ hist = <<>>
  /\ source_rows = <<>>
  /\ new_rows = <<>>
  /\ duplicates = 0
  /\ ProduceIdle
  /\ ConvertIdle
  /\ HoursIdle
  /\ LocalsInit

\* lines 343-355: the source manifest, the source clips directory and the
\* header of the source manifest are there, or the run returns 1
AppendCheckSource ==
  /\ tool = "append" /\ pc = "check_source"
  /\ pc' = IF source.tsv /\ source.clips_dir /\ VerifyTsvFields(source.header)
           THEN "read_source" ELSE "exit1"
  /\ UNCHANGED <<otherVars, ctl, manifest, clips, snap, fixLocals, valid_rows,
                 valid_mp3s, deleted, effects, splitVars>>

\* lines 357-367: read, filter and sample the source rows; none left
\* returns 1
AppendReadSource ==
  /\ tool = "append" /\ pc = "read_source"
  /\ LET rd == ReadSourceData(source.rows, num_samples, min_words, seed)
     IN /\ source_rows' = rd.rows
        /\ rng' = rd.rng
        /\ pc' = IF rd.rows = <<>> THEN "exit1" ELSE "read_target"
  /\ UNCHANGED <<hourVars, convVars, produceVars, env, appendArgs, new_rows, duplicates, target_dir,
                 target_header, ctl,
                 manifest, clips, snap, fixLocals, valid_rows, valid_mp3s,
                 deleted, effects, splitArgs, rng0, filtered_rows, all_rows,
                 sizes, outs, trainVars>>

\* lines 369-373: read the target manifest, make its directory
AppendReadTarget ==
  /\ tool = "append" /\ pc = "read_target"
  /\ target_dir' = TRUE
  /\ effects' = effects \cup {"read_manifest"}
                  \cup (IF target_dir THEN {} ELSE {"mkdir"})
  /\ pc' = IF dry_run THEN "dry_run" ELSE "append"
  /\ UNCHANGED <<hourVars, convVars, produceVars, env, appendArgs, appendLocals, target_header,
                 ctl, manifest, clips, snap,
                 fixLocals, valid_rows, valid_mp3s, deleted, splitVars>>

\* line 377: append_data writes the target rows and the new rows
AppendAppend ==
  /\ tool = "append" /\ pc = "append"
  /\ LET ad == AppendData(source_rows, manifest)
     IN /\ new_rows' = ad.new_rows
        /\ duplicates' = ad.duplicates
        /\ manifest' = manifest \o ad.new_rows
  /\ target_header' = IF target_header # <<>> THEN target_header
                      ELSE source.header
  /\ effects' = effects \cup {"write_manifest"}
  /\ pc' = "copy"
  /\ UNCHANGED <<hourVars, convVars, produceVars, env, appendArgs, source_rows, target_dir, ctl, clips, snap,
                 fixLocals, valid_rows, valid_mp3s, deleted, splitVars>>

\* lines 379-383: copy_mp3_files makes the clips directory and copies the
\* clips of the new rows; verify_results only reports
AppendCopy ==
  /\ tool = "append" /\ pc = "copy"
  /\ clips_dir' = TRUE
  /\ clips' = clips \cup CopiedMp3s(new_rows, source.clips)
  /\ effects' = effects \cup {"copy"}
                  \cup (IF clips_dir THEN {} ELSE {"mkdir"})
  /\ pc' = "done"
  /\ UNCHANGED <<hourVars, convVars, produceVars, locked, dry_run, appendVars, ctl, manifest, snap, fixLocals,
                 valid_rows, valid_mp3s, deleted, splitVars>>

\* lines 384-417: the --dry-run branch counts and reports
AppendDryRun ==
  /\ tool = "append" /\ pc = "dry_run"
  /\ LET dr == DryRunScan(source_rows, manifest)
     IN /\ new_rows' = dr.new_rows
        /\ duplicates' = dr.duplicates
  /\ pc' = "done"
  /\ UNCHANGED <<hourVars, convVars, produceVars, env, appendArgs, source_rows, target_dir,
                 target_header, ctl, manifest,
                 clips, snap, fixLocals, valid_rows, valid_mp3s, deleted,
                 effects, splitVars>>

AppendNext ==
  \/ AppendCheckSource
  \/ AppendReadSource
  \/ AppendReadTarget
  \/ AppendAppend
  \/ AppendCopy
  \/ AppendDryRun

\* the orphan-deletion tool, the other tool with a --dry-run flag
DeleteInit ==
  /\ tool = "delete"
  /\ pc = "read"
  /\ run = 1
  /\ manifest \in SplitManifests
  /\ clips_dir \in BOOLEAN
  /\ clips \in IF clips_dir THEN SUBSET ClipNames ELSE {{}}
  /\ locked \in SUBSET clips
  /\ dry_run \in BOOLEAN
  /\ dev_ratio = 0 /\ test_ratio = 0
  /\ seed = 0
  /\ rng = 0
  /\ rng0 = rng
  /\ total_rows = 0
  /\ manifest0 = manifest
  /\ clips0 = clips
  /\ hist = <<>>
  /\ AppendIdle
  /\ ProduceIdle
  /\ ConvertIdle
  /\ HoursIdle
  /\ LocalsInit

\* the other orphan-deletion tool: it takes no manifest and has no --dry-run
UnwantedInit ==
  /\ tool = "unwanted"
  /\ pc = "read"
  /\ run = 1
  /\ manifest = <<>>
  /\ clips_dir \in BOOLEAN
  /\ clips \in IF clips_dir THEN SUBSET (ClipNames \cup {"z.mp3"}) ELSE {{}}
  /\ locked \in SUBSET clips
  /\ dry_run = FALSE
  /\ dev_ratio = 0 /\ test_ratio = 0
  /\ seed = 0
  /\ rng = 0
  /\ rng0 = rng
  /\ total_rows = 0
  /\ manifest0 = manifest
  /\ clips0 = clips
  /\ hist = <<>>
  /\ AppendIdle
  /\ ProduceIdle
  /\ ConvertIdle
  /\ HoursIdle
  /\ LocalsInit

DeleteNext == DeleteRead \/ DeleteRun \/ UnwantedRead \/ UnwantedRun
SpecDelete == (DeleteInit \/ UnwantedInit) /\ [][DeleteNext]_vars

DryRunToolsInit == AppendInit \/ DeleteInit
DryRunToolsNext == AppendNext \/ DeleteRead \/ DeleteRun
SpecAppend == DryRunToolsInit /\ [][DryRunToolsNext]_vars

\* ---- the tools that add rows to custom_validated.tsv --------------------
\* str.upper / str.lower of one character, str.capitalize of a string
LowerAll(s) ==
  LET Lower(c) ==
        CASE c = "A" -> "a" [] c = "B" -> "b" [] c = "C" -> "c" [] OTHER -> c
  IN [i \in DOMAIN s |-> Lower(s[i])]
Capitalize(s) ==
  LET Upper(c) ==
        CASE c = "a" -> "A" [] c = "b" -> "B" [] c = "c" -> "C" [] OTHER -> c
  IN [i \in DOMAIN s |-> IF i = 1 THEN Upper(s[i]) ELSE LowerAll(s)[i]]
\* a transcript of ten words, the same with blanks around it
TenWords ==
  <<"a", " ", "b", " ", "a", " ", "b", " ", "a", " ", "b", " ", "a", " ",
    "b", " ", "a", " ", "b">>
TenWordsPadded == <<" ">> \o TenWords \o <<" ">>
\* hashlib.sha256(text).hexdigest(): one name for each text that is hashed
Sha256(text) ==
  LET HashedTexts ==
        <<<<>>, Capitalize(TenWords), Capitalize(ThreeWords), <<"A", "b">>>>
      HashNames == <<"sha_0", "sha_1", "sha_2", "sha_3">>
  IN IF \E k \in DOMAIN HashedTexts : HashedTexts[k] = text
     THEN HashNames[CHOOSE k \in DOMAIN HashedTexts : HashedTexts[k] = text]
     ELSE "sha_x"
\* generate_client_id: uuid4 and random.choices, a value drawn from the
\* entropy of the process, which moves on with every draw
GenerateClientId(r) ==
  LET ClientIdNames ==
        <<"id00", "id01", "id02", "id03", "id04", "id05", "id06", "id07",
          "id08", "id09", "id10", "id11", "id12", "id13", "id14", "id15">>
  IN [id |-> ClientIdNames[RngNext(r) + 1], rng |-> RngNext(r)]
\* the thirteen fields of a line the converters write
TsvLine(client_id, path, sentence_id, sentence) ==
  <<client_id, <<path>>, sentence_id, sentence, "", "2", "0", "", "", "",
    "", "en", "">>

\* -- convert_parquets_files_into_mp3_and_transcripts.py
\* lines 26-29: format_sentence
ParquetFormatSentence(sentence) ==
  IF sentence = <<>> THEN <<>> ELSE Capitalize(Strip(sentence))
\* lines 32-36: has_enough_words
HasEnoughWords(sentence, min) ==
  sentence # <<>> /\ WordCount(Strip(sentence)) >= min
\* lines 67-68: the name is the md5 of the file name, the row index and the
\* transcript
ParquetMp3Name_noIndex(idx, transcript) ==
  LET ParquetTexts == <<TenWords, TenWordsPadded, ThreeWords>>
      PeopleSpeechNames ==
        <<"people_speech_1.mp3", "people_speech_2.mp3", "people_speech_3.mp3">>
  IN PeopleSpeechNames[
       CHOOSE k \in DOMAIN ParquetTexts : ParquetTexts[k] = transcript]
ParquetMp3Name(idx, transcript) ==
  LET ParquetTexts == <<TenWords, TenWordsPadded, ThreeWords>>
      PeopleSpeechNames ==
        <<"people_speech_1.mp3", "people_speech_2.mp3", "people_speech_3.mp3",
          "people_speech_4.mp3", "people_speech_5.mp3", "people_speech_6.mp3",
          "people_speech_7.mp3", "people_speech_8.mp3", "people_speech_9.mp3">>
  IN PeopleSpeechNames[(idx % 3) * 3 +
       (CHOOSE k \in DOMAIN ParquetTexts : ParquetTexts[k] = transcript)]
\* lines 38-101: process_row for the rows from index idx on; a row without
\* audio or with fewer than ten words, or whose audio cannot be written
\* (the exception is caught), gives nothing
RECURSIVE ProcessRows(_, _, _, _)
ProcessRows(rows, idx, r, acc) ==
  IF idx > Len(rows) THEN [acc EXCEPT !.rng = r]
  ELSE LET row == rows[idx]
       IN IF ~row.audio \/ row.text = <<>> \/ ~HasEnoughWords(row.text, 10)
             \/ ~row.ok
          THEN ProcessRows(rows, idx + 1, r, acc)
          ELSE LET mp3_name == ParquetMp3Name(idx - 1, row.text)
                   formatted_text == ParquetFormatSentence(row.text)
                   cid == GenerateClientId(r)
               IN ProcessRows(rows, idx + 1, cid.rng,
                    [acc EXCEPT
                       !.files = @ \cup {mp3_name},
                       !.lines = Append(@, TsvLine(cid.id, mp3_name,
                                           Sha256(formatted_text),
                                           formatted_text))])

\* lines 191-208: make the clips directory, convert every row
ParquetConvert ==
  /\ tool = "parquet" /\ pc = "convert"
  /\ LET res == ProcessRows(corpus.parquet, 1, rng,
                            [files |-> {}, lines |-> <<>>, rng |-> rng])
     IN /\ processed_files' = res.lines
        /\ clips' = clips \cup res.files
        /\ rng' = res.rng
        /\ effects' = effects \cup (IF res.files # {} THEN {"export"} ELSE {})
                        \cup (IF clips_dir THEN {} ELSE {"mkdir"})
  /\ clips_dir' = TRUE
  /\ pc' = "write"
  /\ UNCHANGED <<hourVars, convVars, locked, dry_run, appendVars, corpus, soArgs, ctl, manifest,
                 snap, fixLocals, valid_rows, valid_mp3s, deleted, splitArgs,
                 rng0, filtered_rows, all_rows, sizes, outs, trainVars>>

\* lines 210-220: append the lines to custom_validated.tsv
ParquetWrite ==
  /\ tool = "parquet" /\ pc = "write"
  /\ manifest' = manifest \o processed_files
  /\ effects' = effects \cup {"write_manifest"}
  /\ pc' = "done"
  /\ UNCHANGED <<otherVars, ctl, clips, snap, fixLocals, valid_rows,
                 valid_mp3s, deleted, splitVars>>

\* -- convert_speechocean762_to_cv_ds_format.py
\* lines 33-36: format_sentence
SoFormatSentence(sentence) ==
  IF sentence = <<>> THEN <<>> ELSE Capitalize(LowerAll(sentence))
\* lines 157-168: SPEAKER<directory>_<name without .WAV>.mp3
SoMp3Name(wav) ==
  CASE wav.speaker = "0001" /\ wav.uttid = "u1" -> "SPEAKER0001_u1.mp3"
    [] wav.speaker = "0001" /\ wav.uttid = "u2" -> "SPEAKER0001_u2.mp3"
    [] wav.speaker = "0002" /\ wav.uttid = "u1" -> "SPEAKER0002_u1.mp3"
    [] OTHER -> "SPEAKER0002_u2.mp3"
\* lines 221-230: the utterance id cut out of the name of a clip
SoUttidOfMp3(mp3_name) ==
  CASE mp3_name \in {"SPEAKER0001_u1.mp3", "SPEAKER0002_u1.mp3"} -> "u1"
    [] mp3_name \in {"SPEAKER0001_u2.mp3", "SPEAKER0002_u2.mp3"} -> "u2"
    [] OTHER -> "other"
\* all_transcripts.get(uttid, "")
Transcript(transcripts, uttid) ==
  IF \E k \in DOMAIN transcripts : transcripts[k][1] = uttid
  THEN transcripts[CHOOSE k \in DOMAIN transcripts :
                     /\ transcripts[k][1] = uttid
                     /\ \A j \in DOMAIN transcripts :
                          transcripts[j][1] = uttid => j <= k][2]
  ELSE <<>>
\* lines 155-214: the loop over the WAV files, in the order of the listing
RECURSIVE SoProcessWavs(_, _, _, _, _, _)
SoProcessWavs(wavs, i, transcripts, skip, files, acc) ==
  IF i > Len(wavs) THEN acc
  ELSE LET wav == wavs[i]
           mp3_name == SoMp3Name(wav)
           there == mp3_name \in files \cup acc.exported
           convert == ~skip /\ ~there
       IN IF (convert /\ ~wav.ok) \/ (skip /\ ~there)
          THEN SoProcessWavs(wavs, i + 1, transcripts, skip, files, acc)
          ELSE LET formatted_text ==
                     SoFormatSentence(Transcript(transcripts, wav.uttid))
                   cid == GenerateClientId(acc.rng)
               IN SoProcessWavs(wavs, i + 1, transcripts, skip, files,
                    [acc EXCEPT
                       !.exported = IF convert THEN @ \cup {mp3_name} ELSE @,
                       !.seen = @ \cup {mp3_name},
                       !.rng = cid.rng,
                       !.lines = Append(@, TsvLine(cid.id, mp3_name,
                                           Sha256(formatted_text),
                                           formatted_text))])
\* lines 301-302: line.strip().split('\t') of a manifest line: the blank
\* fields at the end of the line go, the last field left loses the blanks
\* at its end (the client id, first on the line, has none in front)
SoParts(row) ==
  LET FieldBlank(i) ==
        CASE i = 2 -> row[i] = <<>>
          [] i = 4 -> row[i] = <<>> \/ IsSpace(row[i])
          [] OTHER -> row[i] = ""
      LastField ==
        IF \E i \in DOMAIN row : ~FieldBlank(i)
        THEN CHOOSE i \in DOMAIN row :
               ~FieldBlank(i) /\ \A j \in DOMAIN row : j > i => FieldBlank(j)
        ELSE 0
  IN [i \in 1..LastField |->
        IF i = 4 /\ i = LastField THEN RStrip(row[i]) ELSE row[i]]
\* lines 295-311: existing_data, the last line that names the clip; 0 for
\* none
ExistingEntry(existing, name) ==
  IF \E k \in DOMAIN existing :
       Len(SoParts(existing[k])) >= 4 /\ existing[k][2] = <<name>>
  THEN CHOOSE k \in DOMAIN existing :
         /\ Len(SoParts(existing[k])) >= 4 /\ existing[k][2] = <<name>>
         /\ \A j \in DOMAIN existing :
              (Len(SoParts(existing[j])) >= 4 /\ existing[j][2] = <<name>>)
                => j <= k
  ELSE 0
\* lines 216-249 and 337-381: one line for each clip of the list
RECURSIVE SoLinesFor(_, _, _, _, _)
SoLinesFor(names, i, transcripts, existing, acc) ==
  IF i > Len(names) THEN acc
  ELSE LET k == ExistingEntry(existing, names[i])
       IN IF k # 0
          THEN SoLinesFor(names, i + 1, transcripts, existing,
                 [acc EXCEPT !.lines = Append(@,
                    TsvLine(existing[k][1], names[i], existing[k][3],
                            SoParts(existing[k])[4]))])
          ELSE LET formatted_text ==
                     SoFormatSentence(
                       Transcript(transcripts, SoUttidOfMp3(names[i])))
                   cid == GenerateClientId(acc.rng)
               IN SoLinesFor(names, i + 1, transcripts, existing,
                    [acc EXCEPT !.rng = cid.rng,
                                !.lines = Append(@, TsvLine(cid.id, names[i],
                                                    Sha256(formatted_text),
                                                    formatted_text))])
\* the orders a directory listing or a set may be gone through in
Orderings(S) ==
  {q \in [1..Cardinality(S) -> S] : \A i, j \in DOMAIN q : i # j => q[i] # q[j]}

\* lines 292-381: rebuild_tsv_from_mp3_files collects one line for each
\* clip listed, with the fields of the existing line that names it if any
RebuildLines_keepExisting(names, transcripts, existing, r) ==
  LET res == SoLinesFor(SelectSeq(names, LAMBDA n :
                                    ExistingEntry(existing, n) = 0),
                        1, transcripts, existing,
                        [lines |-> <<>>, rng |-> r])
  IN [lines |-> existing \o res.lines, rng |-> res.rng]
RebuildLines(names, transcripts, existing, r) ==
  SoLinesFor(names, 1, transcripts, existing, [lines |-> <<>>, rng |-> r])

\* lines 97-114: make the clips directory (no clip tried has a name that
\* cleanup_mp3_filenames renames); with --rebuild_tsv write the manifest
\* anew, one line for each clip, and return
SoStart ==
  /\ tool = "speechocean" /\ pc = "start"
  /\ clips_dir' = TRUE
  /\ IF rebuild_tsv
     THEN \E names \in Orderings(clips) :
            LET res == RebuildLines(names, corpus.transcripts, manifest, rng)
            IN /\ manifest' = res.lines
               /\ processed_files' = res.lines
               /\ rng' = res.rng
               /\ effects' = effects \cup {"read_manifest", "list_clips",
                                           "write_manifest"}
                               \cup (IF clips_dir THEN {} ELSE {"mkdir"})
               /\ pc' = "done"
     ELSE /\ effects' = effects \cup (IF clips_dir THEN {} ELSE {"mkdir"})
          /\ pc' = "convert"
          /\ UNCHANGED <<manifest, processed_files, rng>>
  /\ UNCHANGED <<hourVars, convVars, locked, dry_run, appendVars, corpus, soArgs, ctl, clips,
                 snap, fixLocals, valid_rows, valid_mp3s, deleted, splitArgs,
                 rng0, filtered_rows, all_rows, sizes, outs, trainVars>>

\* lines 116-214: convert the WAV files that have no clip yet, collect a
\* line for every WAV file whose clip is there
SoConvert ==
  /\ tool = "speechocean" /\ pc = "convert"
  /\ LET res == SoProcessWavs(corpus.wavs, 1, corpus.transcripts,
                              skip_audio_conversion, clips,
                              [exported |-> {}, seen |-> {}, lines |-> <<>>,
                               rng |-> rng])
     IN /\ clips' = clips \cup res.exported
        /\ processed_files' = res.lines
        /\ mp3_files' = clips \ res.seen
        /\ rng' = res.rng
        /\ effects' = effects \cup {"list_clips"}
                        \cup (IF res.exported # {} THEN {"export"} ELSE {})
  /\ pc' = "write"
  /\ UNCHANGED <<hourVars, convVars, env, appendVars, corpus, soArgs, ctl, manifest, snap,
                 empty_sentence_mp3s, extra_mp3s, consistent, valid_rows,
                 valid_mp3s, deleted, splitArgs, rng0, filtered_rows,
                 all_rows, sizes, outs, trainVars>>

\* lines 216-290: with --sync_files a line for every other clip; nothing
\* collected returns; else append the lines to the manifest
SoWrite ==
  /\ tool = "speechocean" /\ pc = "write"
  /\ \E names \in (IF sync_files THEN Orderings(mp3_files) ELSE {<<>>}) :
       LET res == SoLinesFor(names, 1, corpus.transcripts, <<>>,
                             [lines |-> processed_files, rng |-> rng])
       IN /\ processed_files' = res.lines
          /\ rng' = res.rng
          /\ IF res.lines = <<>>
             THEN UNCHANGED <<manifest, effects>>
             ELSE /\ manifest' = manifest \o res.lines
                  /\ effects' = effects \cup {"write_manifest"}
  /\ pc' = "done"
  /\ UNCHANGED <<hourVars, convVars, env, appendVars, corpus, soArgs, ctl, clips, snap, fixLocals,
                 valid_rows, valid_mp3s, deleted, splitArgs, rng0,
                 filtered_rows, all_rows, sizes, outs, trainVars>>

\* -- merge_cv_corpus_copy1_into_clips_and_custom_validated_tsv.py
\* lines 26-36: make the clips directory, copy every clip of clips-Copy1
MergeCopy ==
  /\ tool = "merge" /\ pc = "copy"
  /\ clips_dir' = TRUE
  /\ clips' = clips \cup corpus.copy1_clips
  /\ effects' = effects \cup (IF corpus.copy1_clips # {} THEN {"copy"} ELSE {})
                  \cup (IF clips_dir THEN {} ELSE {"mkdir"})
  /\ pc' = "append"
  /\ UNCHANGED <<hourVars, convVars, locked, dry_run, appendVars, produceVars, ctl, manifest,
                 snap, fixLocals, valid_rows, valid_mp3s, deleted, splitVars>>

\* lines 38-52: append the data lines of custom_validated-Copy1.tsv; open
\* raises when that file is not there
MergeAppend ==
  /\ tool = "merge" /\ pc = "append"
  /\ IF corpus.copy1_tsv
     THEN /\ manifest' = manifest \o corpus.copy1_rows
          /\ effects' = effects \cup {"write_manifest"}
          /\ pc' = "delete_splits"
     ELSE /\ pc' = "error"
          /\ UNCHANGED <<manifest, effects>>
  /\ UNCHANGED <<otherVars, ctl, clips, snap, fixLocals, valid_rows,
                 valid_mp3s, deleted, splitVars>>

\* lines 54-62: remove dev.tsv, test.tsv and train.tsv
MergeDeleteSplits ==
  /\ tool = "merge" /\ pc = "delete_splits"
  /\ dev_tsv' = <<>> /\ test_tsv' = <<>> /\ train_tsv' = <<>>
  /\ pc' = "done"
  /\ UNCHANGED <<otherVars, ctl, manifest, clips, snap, fixLocals, valid_rows,
                 valid_mp3s, deleted, effects, splitArgs, rng0, rng,
                 filtered_rows, all_rows, sizes, trainVars>>

\* -- runs of these tools, one after the other, on one manifest
ProduceTools == {"parquet", "speechocean", "merge", "append"}
\* the inputs tried: the rows of the parquet file, the WAV files (one of
\* them cannot be converted), the transcripts, the Copy1 manifest and clips
Corpora ==
  [parquet : {<<>>, <<[text |-> TenWords, audio |-> TRUE, ok |-> TRUE]>>,
              <<[text |-> TenWords, audio |-> TRUE, ok |-> TRUE],
                [text |-> TenWords, audio |-> TRUE, ok |-> TRUE]>>,
              <<[text |-> TenWords, audio |-> TRUE, ok |-> FALSE],
                [text |-> TenWordsPadded, audio |-> TRUE, ok |-> TRUE]>>,
              <<[text |-> TenWordsPadded, audio |-> TRUE, ok |-> TRUE],
                [text |-> ThreeWords, audio |-> TRUE, ok |-> TRUE]>>},
   wavs : {<<>>,
           <<[speaker |-> "0001", uttid |-> "u1", ok |-> TRUE]>>,
           <<[speaker |-> "0001", uttid |-> "u1", ok |-> TRUE],
             [speaker |-> "0002", uttid |-> "u1", ok |-> FALSE]>>},
   transcripts : {<<<<"u1", <<"A", "B">>>>>>},
   copy1_tsv : {TRUE},
   copy1_rows : {<<>>, <<<<"c", <<"x.mp3">>, "s", ThreeWords>>>>},
   copy1_clips : {{"x.mp3"}}]
     \cup
  [parquet : {<<[text |-> TenWords, audio |-> FALSE, ok |-> TRUE],
                [text |-> TenWords, audio |-> TRUE, ok |-> TRUE]>>},
   wavs : {<<>>},
   transcripts : {<<>>},
   copy1_tsv : {FALSE},
   copy1_rows : {<<>>},
   copy1_clips : {{}}]

ProduceInit ==
  /\ tool = "none"
  /\ pc = "idle"
  /\ run = 0
  /\ manifest \in {<<>>, <<<<"c", <<"a.mp3">>, "s", <<"x">>>>>>}
  /\ clips = {Basename(manifest[i][2]) : i \in DOMAIN manifest}
  /\ clips_dir = (clips # {})
  /\ target_dir = TRUE
  /\ target_header = Header
  /\ corpus \in Corpora
  /\ source = [tsv |-> TRUE, clips_dir |-> TRUE, header |-> Header,
               rows |-> <<<<"c", <<"b.mp3">>, "s", ThreeWordsPadded>>,
                          <<"c", <<"d", "a.mp3">>, "s", ThreeWords>>>>,
               clips |-> SourceClips]
  /\ min_words = 3
  /\ num_samples = 1000
  /\ source_rows = <<>>
  /\ new_rows = <<>>
  /\ duplicates = 0
  /\ locked = {}
  /\ dry_run = FALSE
  /\ skip_audio_conversion = FALSE
  /\ sync_files = FALSE
  /\ rebuild_tsv = FALSE
  /\ processed_files = <<>>
  /\ ConvertIdle
  /\ HoursIdle
  /\ dev_ratio = 0 /\ test_ratio = 0
  /\ seed = 42
  /\ rng = 0
  /\ rng0 = rng
  /\ total_rows = 0
  /\ manifest0 = manifest
  /\ clips0 = clips
  /\ hist = <<>>
  /\ LocalsInit

\* a new process runs one of the tools on what the runs before it left
ProduceStart ==
  /\ pc \in {"idle", "done", "exit1"}
  /\ run < MaxRuns
  /\ run' = run + 1
  /\ tool' \in ProduceTools
  /\ pc' = CASE tool' = "parquet" -> "convert"
             [] tool' = "speechocean" -> "start"
             [] tool' = "merge" -> "copy"
             [] OTHER -> "check_source"
  /\ \E flags \in (IF tool' = "speechocean"
                   THEN {<<FALSE, FALSE, FALSE>>, <<TRUE, FALSE, FALSE>>,
                         <<FALSE, TRUE, FALSE>>, <<FALSE, FALSE, TRUE>>}
                   ELSE {<<FALSE, FALSE, FALSE>>}) :
       /\ skip_audio_conversion' = flags[1]
       /\ sync_files' = flags[2]
       /\ rebuild_tsv' = flags[3]
  /\ dry_run' \in (IF tool' = "append" THEN BOOLEAN ELSE {FALSE})
  /\ rng' \in Entropy
  /\ rng0' = rng'
  /\ manifest0' = manifest
  /\ clips0' = clips
  /\ processed_files' = <<>>
  /\ source_rows' = <<>>
  /\ new_rows' = <<>>
  /\ duplicates' = 0
  /\ mp3_files' = {}
  /\ effects' = {}
  /\ UNCHANGED <<hourVars, convVars, locked, clips_dir, appendArgs, target_dir, target_header,
                 corpus, manifest,
                 clips, hist, empty_sentence_mp3s, extra_mp3s, consistent,
                 valid_rows, valid_mp3s, deleted, splitArgs, filtered_rows,
                 all_rows, sizes, outs, trainVars>>

ProduceNext ==
  \/ ProduceStart
  \/ ParquetConvert
  \/ ParquetWrite
  \/ SoStart
  \/ SoConvert
  \/ SoWrite
  \/ MergeCopy
  \/ MergeAppend
  \/ MergeDeleteSplits
  \/ AppendNext

SpecProduce == ProduceInit /\ [][ProduceNext]_vars

\* ---- the conversions step by step: pool workers, clips being written,
\* ---- interrupted runs ----------------------------------------------------
\* a worker, or a turn of the loop, has ended with a row or with none
Finished(w) == w.st \in {"done", "none"}

\* -- convert_parquets_files_into_mp3_and_transcripts.py
\* lines 191-208 and 179-181: make the clips directory, hand the rows of the
\* parquet file to the pool
ParquetPoolStart ==
  /\ tool = "parquet" /\ pc = "start"
  /\ clips_dir' = TRUE
  /\ effects' = effects \cup (IF clips_dir THEN {} ELSE {"mkdir"})
  /\ pc' = "pool"
  /\ UNCHANGED <<hourVars, locked, dry_run, appendVars, produceVars, convVars, ctl,
                 manifest, clips, snap, fixLocals, valid_rows, valid_mp3s,
                 deleted, splitVars>>

\* lines 38-79: process_row up to audio.export, which opens the clip under
\* its final name and writes into it; a row without audio or transcript,
\* with fewer than ten words or with audio that cannot be written returns
\* None
WorkerBegin(i) ==
  /\ tool = "parquet" /\ pc = "pool"
  /\ workers[i].st = "idle"
  /\ LET row == corpus.parquet[i]
         mp3_name == ParquetMp3Name(i - 1, row.text)
     IN IF ~row.audio \/ row.text = <<>> \/ ~HasEnoughWords(row.text, 10)
             \/ ~row.ok
        THEN /\ workers' = [workers EXCEPT ![i].st = "none"]
             /\ completed' = Append(completed, i)
             /\ UNCHANGED <<clips, partial>>
        ELSE /\ workers' = [workers EXCEPT ![i].st = "exporting"]
             /\ clips' = clips \cup {mp3_name}
             /\ partial' = partial \cup {mp3_name}
             /\ UNCHANGED completed
  /\ UNCHANGED <<hourVars, env, appendVars, produceVars, interrupted, ctl, pc, manifest,
                 snap, fixLocals, valid_rows, valid_mp3s, deleted, effects,
                 splitVars>>

\* lines 79-96: the export ends, the worker returns its row
WorkerEnd(i) ==
  /\ tool = "parquet" /\ pc = "pool"
  /\ workers[i].st = "exporting"
  /\ LET row == corpus.parquet[i]
         mp3_name == ParquetMp3Name(i - 1, row.text)
         formatted_text == ParquetFormatSentence(row.text)
         cid == GenerateClientId(rng)
     IN /\ partial' = partial \ {mp3_name}
        /\ workers' = [workers EXCEPT ![i] =
                         [st |-> "done",
                          line |-> TsvLine(cid.id, mp3_name,
                                           Sha256(formatted_text),
                                           formatted_text)]]
        /\ rng' = cid.rng
  /\ completed' = Append(completed, i)
  /\ UNCHANGED <<hourVars, env, appendVars, produceVars, interrupted, ctl, pc, manifest,
                 clips, snap, fixLocals, valid_rows, valid_mp3s, deleted,
                 effects, splitArgs, rng0, filtered_rows, all_rows, sizes,
                 outs, trainVars>>

\* lines 181-185: pool.map gives the results by the place of the row in the
\* input, whatever the order the workers ended in; None is dropped
PoolResults_byCompletion(ws, order) ==
  LET d == SelectSeq(order, LAMBDA i : ws[i].st = "done")
  IN [k \in DOMAIN d |-> ws[d[k]].line]
PoolResults(ws, order) ==
  LET d == SelectSeq(ws, LAMBDA w : w.st = "done")
  IN [k \in DOMAIN d |-> d[k].line]

PoolCollect ==
  /\ tool = "parquet" /\ pc = "pool"
  /\ \A i \in DOMAIN workers : Finished(workers[i])
  /\ processed_files' = PoolResults(workers, completed)
  /\ effects' = effects \cup (IF processed_files' # <<>> THEN {"export"} ELSE {})
  /\ pc' = "write"
  /\ UNCHANGED <<hourVars, env, appendVars, corpus, soArgs, convVars, ctl, manifest,
                 clips, snap, fixLocals, valid_rows, valid_mp3s, deleted,
                 splitVars>>

\* -- convert_speechocean762_to_cv_ds_format.py
\* lines 134-139: the clips that are there before the loop
SoList ==
  /\ tool = "speechocean" /\ pc = "convert"
  /\ mp3_files' = clips
  /\ effects' = effects \cup {"list_clips"}
  /\ pc' = "loop"
  /\ UNCHANGED <<otherVars, ctl, manifest, clips, snap, empty_sentence_mp3s,
                 extra_mp3s, consistent, valid_rows, valid_mp3s, deleted,
                 splitVars>>

\* lines 155-185: one WAV file of the loop: a clip that is there is not
\* converted again; else audio.export opens the clip under its final name
\* and writes into it; a WAV file that cannot be read is passed over
SoWavBegin(i) ==
  /\ tool = "speechocean" /\ pc = "loop"
  /\ workers[i].st = "idle"
  /\ \A j \in 1..(i - 1) : Finished(workers[j])
  /\ LET wav == corpus.wavs[i]
         mp3_name == SoMp3Name(wav)
         mp3_exists == mp3_name \in clips
         formatted_text ==
           SoFormatSentence(Transcript(corpus.transcripts, wav.uttid))
         cid == GenerateClientId(rng)
     IN IF mp3_exists
        THEN /\ processed_files' =
                  Append(processed_files,
                         TsvLine(cid.id, mp3_name, Sha256(formatted_text),
                                 formatted_text))
             /\ rng' = cid.rng
             /\ mp3_files' = mp3_files \ {mp3_name}
             /\ workers' = [workers EXCEPT ![i].st = "done"]
             /\ UNCHANGED <<clips, partial>>
        ELSE IF ~skip_audio_conversion /\ wav.ok
        THEN /\ clips' = clips \cup {mp3_name}
             /\ partial' = partial \cup {mp3_name}
             /\ workers' = [workers EXCEPT ![i].st = "exporting"]
             /\ UNCHANGED <<processed_files, rng, mp3_files>>
        ELSE /\ workers' = [workers EXCEPT ![i].st = "none"]
             /\ UNCHANGED <<clips, partial, processed_files, rng, mp3_files>>
  /\ UNCHANGED <<hourVars, env, appendVars, corpus, soArgs, completed, interrupted, ctl,
                 pc, manifest, snap, empty_sentence_mp3s, extra_mp3s,
                 consistent, valid_rows, valid_mp3s, deleted, effects,
                 splitArgs, rng0, filtered_rows, all_rows, sizes, outs,
                 trainVars>>

\* lines 176-214: the export ends, the row of the clip is collected
SoWavEnd(i) ==
  /\ tool = "speechocean" /\ pc = "loop"
  /\ workers[i].st = "exporting"
  /\ LET wav == corpus.wavs[i]
         mp3_name == SoMp3Name(wav)
         formatted_text ==
           SoFormatSentence(Transcript(corpus.transcripts, wav.uttid))
         cid == GenerateClientId(rng)
     IN /\ partial' = partial \ {mp3_name}
        /\ processed_files' =
             Append(processed_files,
                    TsvLine(cid.id, mp3_name, Sha256(formatted_text),
                            formatted_text))
        /\ rng' = cid.rng
        /\ mp3_files' = mp3_files \ {mp3_name}
        /\ effects' = effects \cup {"export"}
  /\ workers' = [workers EXCEPT ![i].st = "done"]
  /\ UNCHANGED <<hourVars, env, appendVars, corpus, soArgs, completed, interrupted, ctl,
                 pc, manifest, clips, snap, empty_sentence_mp3s, extra_mp3s,
                 consistent, valid_rows, valid_mp3s, deleted, splitArgs,
                 rng0, filtered_rows, all_rows, sizes, outs, trainVars>>

\* line 155: the loop over the WAV files is through
SoLoopEnd ==
  /\ tool = "speechocean" /\ pc = "loop"
  /\ \A i \in DOMAIN workers : Finished(workers[i])
  /\ pc' = "write"
  /\ UNCHANGED <<otherVars, ctl, manifest, clips, snap, fixLocals, valid_rows,
                 valid_mp3s, deleted, effects, splitVars>>

\* -- the process is stopped from outside (a signal, a power cut) at any
\* point of a conversion: a clip being exported stays as far as it was
\* written, and of the lines being appended to the manifest a prefix is there
Interrupt ==
  /\ tool \in {"parquet", "speechocean"}
  /\ pc \in {"start", "pool", "convert", "loop", "write"}
  /\ pc' = "killed"
  /\ interrupted' = TRUE
  /\ IF pc = "write"
     THEN \E k \in 0..Len(processed_files) :
            manifest' = manifest \o SubSeq(processed_files, 1, k)
     ELSE UNCHANGED manifest
  /\ UNCHANGED <<hourVars, env, appendVars, produceVars, partial, workers, completed,
                 ctl, clips, snap, fixLocals, valid_rows, valid_mp3s, deleted,
                 effects, splitVars>>

\* a new process runs a conversion, or runs the one that was stopped again,
\* over the same inputs
ConvertStart ==
  /\ pc \in {"idle", "killed"}
  /\ run < MaxRuns
  /\ run' = run + 1
  /\ tool' \in (IF pc = "killed" THEN {tool} ELSE {"parquet", "speechocean"})
  /\ pc' = "start"
  /\ workers' = [i \in 1..Len(IF tool' = "parquet" THEN corpus.parquet
                              ELSE corpus.wavs) |->
                   [st |-> "idle", line |-> <<>>]]
  /\ completed' = <<>>
  /\ processed_files' = <<>>
  /\ mp3_files' = {}
  /\ effects' = {}
  /\ rng' \in Entropy
  /\ rng0' = rng'
  /\ UNCHANGED <<hourVars, env, appendVars, corpus, soArgs, partial, interrupted,
                 manifest, clips, snap, empty_sentence_mp3s, extra_mp3s,
                 consistent, valid_rows, valid_mp3s, deleted, splitArgs,
                 filtered_rows, all_rows, sizes, outs, trainVars>>

ConvertNext ==
  \/ ConvertStart
  \/ ParquetPoolStart
  \/ \E i \in DOMAIN workers : WorkerBegin(i)
  \/ \E i \in DOMAIN workers : WorkerEnd(i)
  \/ PoolCollect
  \/ ParquetWrite
  \/ SoStart
  \/ SoList
  \/ \E i \in DOMAIN workers : SoWavBegin(i)
  \/ \E i \in DOMAIN workers : SoWavEnd(i)
  \/ SoLoopEnd
  \/ SoWrite
  \/ Interrupt

SpecConvert == ProduceInit /\ [][ConvertNext]_vars

\* ---- l2_arctic/download_l2_arctic_ds_from_official_site.py ---------------
\* process_with_hour_limit(temp_dir, output_dir, total_hours).  A WAV file of
\* the temporary directory is a record of its place in the os.walk listing,
\* its speaker (the first component of its relative path) and the seconds
\* get_audio_duration returns for it (0 when librosa fails, lines 94-99)
MaxFiles == 3
Speakers == {"ABA", "SKA"}
Durations == {0, 1800, 3600}
TotalHoursArgs == {0, 1, 2}
\* line 353: files_per_speaker is 50 in the code; the model takes 1, so that
\* both selection loops run with MaxFiles files
files_per_speaker == 1
\* list.sort(key=...): the stable sort of the places S of a list
SortedBy(S, before(_, _)) ==
  CHOOSE q \in Orderings(S) :
    \A i, j \in DOMAIN q : i < j => before(q[i], q[j])
\* lines 336-343: wav_files sorted by duration
SortByDuration(files) ==
  LET q == SortedBy(DOMAIN files, LAMBDA a, b :
             \/ files[a].duration < files[b].duration
             \/ files[a].duration = files[b].duration /\ a < b)
  IN [k \in DOMAIN q |-> files[q[k]]]
\* lines 345-350: files_by_speaker; a dict keeps its keys in the order of
\* their first insertion, a speaker's list keeps the order of wav_files.
\* The place of the speaker's first file, and the rank of a file among the
\* files of its speaker
SpeakerFirst(files, i) ==
  CHOOSE k \in DOMAIN files :
    /\ files[k].speaker = files[i].speaker
    /\ \A j \in DOMAIN files : files[j].speaker = files[i].speaker => k <= j
SpeakerRank(files, i) ==
  Cardinality({j \in 1..i : files[j].speaker = files[i].speaker})
\* lines 354-359: the files the first loop goes through, speaker after
\* speaker, the first files_per_speaker of each
FirstFiles(files) ==
  LET S == {i \in DOMAIN files : SpeakerRank(files, i) <= files_per_speaker}
      q == SortedBy(S, LAMBDA a, b :
             \/ SpeakerFirst(files, a) < SpeakerFirst(files, b)
             \/ SpeakerFirst(files, a) = SpeakerFirst(files, b) /\ a < b)
  IN [k \in DOMAIN q |-> files[q[k]]]
\* lines 363-369: remaining_files, the other files speaker after speaker,
\* sorted by duration
RemainingFiles(files) ==
  LET S == {i \in DOMAIN files : SpeakerRank(files, i) > files_per_speaker}
      q == SortedBy(S, LAMBDA a, b :
             \/ files[a].duration < files[b].duration
             \/ /\ files[a].duration = files[b].duration
                /\ \/ SpeakerFirst(files, a) < SpeakerFirst(files, b)
                   \/ /\ SpeakerFirst(files, a) = SpeakerFirst(files, b)
                      /\ a < b)
  IN [k \in DOMAIN q |-> files[q[k]]]
\* lines 355-359 and 372-376: a file is selected while the total is below
\* total_seconds; once it is not, every later file meets the break
RECURSIVE SelectUpTo(_, _, _, _)
SelectUpTo(files, i, total_seconds, acc) ==
  IF i > Len(files) THEN acc
  ELSE IF acc.current >= total_seconds
       THEN SelectUpTo(files, i + 1, total_seconds, acc)
       ELSE SelectUpTo(files, i + 1, total_seconds,
              [selected |-> Append(acc.selected, files[i]),
               current |-> acc.current + files[i].duration])

HoursInit ==
  /\ tool = "hours"
  /\ pc = "scan"
  /\ run = 1
  /\ total_hours \in TotalHoursArgs
  /\ \E q \in SeqUpTo(Speakers \X Durations, MaxFiles) :
       temp_dir = [i \in DOMAIN q |->
                     [id |-> i, speaker |-> q[i][1], duration |-> q[i][2]]]
  /\ wav_files = <<>>
  /\ selected_files = <<>>
  /\ current_total_duration = 0
  /\ output_dir = {}
  /\ manifest = <<>>
  /\ clips = {}
  /\ EnvInit
  /\ dev_ratio = 0 /\ test_ratio = 0
  /\ seed = 0
  /\ rng = 0
  /\ rng0 = rng
  /\ total_rows = 0
  /\ manifest0 = manifest
  /\ clips0 = clips
  /\ hist = <<>>
  /\ AppendIdle
  /\ ProduceIdle
  /\ ConvertIdle
  /\ LocalsInit

\* lines 329-343: list the WAV files with their durations, sort them
HoursScan ==
  /\ tool = "hours" /\ pc = "scan"
  /\ wav_files' = SortByDuration(temp_dir)
  /\ pc' = "first"
  /\ UNCHANGED <<env, appendVars, produceVars, convVars, total_hours, temp_dir,
                 selected_files, current_total_duration, output_dir, ctl,
                 manifest, clips, snap, fixLocals, valid_rows, valid_mp3s,
                 deleted, effects, splitVars>>

\* lines 345-359: files of every speaker first
HoursFirst ==
  /\ tool = "hours" /\ pc = "first"
  /\ LET res == SelectUpTo(FirstFiles(wav_files), 1, total_hours * 3600,
                           [selected |-> <<>>, current |-> 0])
     IN /\ selected_files' = res.selected
        /\ current_total_duration' = res.current
  /\ pc' = "more"
  /\ UNCHANGED <<env, appendVars, produceVars, convVars, total_hours, temp_dir,
                 wav_files, output_dir, ctl, manifest, clips, snap, fixLocals,
                 valid_rows, valid_mp3s, deleted, effects, splitVars>>

\* lines 361-379: then the other files while the limit is not reached
HoursMore ==
  /\ tool = "hours" /\ pc = "more"
  /\ LET res == IF current_total_duration < total_hours * 3600
                THEN SelectUpTo(RemainingFiles(wav_files), 1,
                                total_hours * 3600,
                                [selected |-> selected_files,
                                 current |-> current_total_duration])
                ELSE [selected |-> selected_files,
                      current |-> current_total_duration]
     IN /\ selected_files' = res.selected
        /\ current_total_duration' = res.current
  /\ pc' = "copy"
  /\ UNCHANGED <<env, appendVars, produceVars, convVars, total_hours, temp_dir,
                 wav_files, output_dir, ctl, manifest, clips, snap, fixLocals,
                 valid_rows, valid_mp3s, deleted, effects, splitVars>>

\* lines 381-417: copy the selected files; a copy that raises leaves the
\* files copied before it and goes to the except branch
HoursCopy ==
  /\ tool = "hours" /\ pc = "copy"
  /\ \/ /\ output_dir' = output_dir
                           \cup {selected_files[i] : i \in DOMAIN selected_files}
        /\ pc' = "done"
     \/ \E k \in DOMAIN selected_files :
          /\ output_dir' = output_dir \cup {selected_files[i] : i \in 1..(k - 1)}
          /\ pc' = "fallback"
  /\ effects' = effects \cup {"copy"}
  /\ UNCHANGED <<env, appendVars, produceVars, convVars, total_hours, temp_dir,
                 wav_files, selected_files, current_total_duration, ctl,
                 manifest, clips, snap, fixLocals, valid_rows, valid_mp3s,
                 deleted, splitVars>>

\* lines 419-436: the except branch copies every file of the temporary
\* directory and returns True, or returns False when a copy raises again
HoursFallback ==
  /\ tool = "hours" /\ pc = "fallback"
  /\ \/ /\ output_dir' = output_dir \cup {temp_dir[i] : i \in DOMAIN temp_dir}
        /\ pc' = "done"
     \/ \E k \in DOMAIN temp_dir :
          /\ output_dir' = output_dir \cup {temp_dir[i] : i \in 1..(k - 1)}
          /\ pc' = "failed"
  /\ effects' = effects \cup {"copy"}
  /\ UNCHANGED <<env, appendVars, produceVars, convVars, total_hours, temp_dir,
                 wav_files, selected_files, current_total_duration, ctl,
                 manifest, clips, snap, fixLocals, valid_rows, valid_mp3s,
                 deleted, splitVars>>

HoursNext ==
  \/ HoursScan
  \/ HoursFirst
  \/ HoursMore
  \/ HoursCopy
  \/ HoursFallback

SpecHours == HoursInit /\ [][HoursNext]_vars

\* ---- claims about fix_dataset_mismatch.py --------------------------------
FixDone == tool = "fix" /\ pc = "done"
\* the rows of the manifest that name the clip f
RowsNaming(rows, f) ==
  {i \in DOMAIN rows : Len(rows[i]) > 1 /\ Basename(rows[i][2]) = f}

\* C1: after fix_dataset_mismatch completes, every row retained in the
\* rewritten manifest has its media file (the basename of its path column)
\* in the clips directory.
C1_RetainedRowsHaveMedia ==
  FixDone => \A i \in DOMAIN manifest :
               Len(manifest[i]) > 1 /\ Basename(manifest[i][2]) \in clips

\* C2: after a reconciliation pass completes, every mp3 remaining in the
\* clips directory is referenced by exactly one row of the rewritten manifest.
C2_RemainingFilesReferencedOnce ==
  FixDone => \A f \in clips : Cardinality(RowsNaming(manifest, f)) = 1

\* C3: the cleanup passes delete only orphan files: no media file that a
\* row retained in the output manifest references is deleted.
C3_DeletesOnlyOrphans ==
  FixDone => \A f \in deleted : RowsNaming(manifest, f) = {}

SplitSized == tool = "split" /\ pc \in {"write", "done"}
SplitDone == tool = "split" /\ pc = "done"
\* the number of eligible rows: the rows of the rewritten manifest
SplitN == Len(manifest)
Abs(x) == IF x < 0 THEN -x ELSE x
\* r is num / den rounded to the nearest integer, a tie going to the even one
IsRounded(r, num, den) ==
  /\ 2 * Abs(den * r - num) <= den
  /\ 2 * Abs(den * r - num) = den => r % 2 = 0

\* C5: for every eligible row count N and every ratio pair that passes the
\* ratio check, dev_size + test_size + train_size = N with each size >= 0,
\* neither row-count assertion fails, and the three written splits together
\* hold exactly N rows.
C5_SizesSumToN ==
  /\ tool = "split" => pc # "assert_failed"
  /\ SplitSized =>
       /\ dev_size + test_size + train_size = SplitN
       /\ dev_size >= 0 /\ test_size >= 0 /\ train_size >= 0
  /\ SplitDone => Len(dev_tsv) + Len(test_tsv) + Len(train_tsv) = SplitN
C5_Witness ==
  /\ SplitDone /\ SplitN > 10
  /\ dev_ratio < 0
  /\ PyRound(SplitN * test_ratio, RatioDen) >= SplitN
  /\ train_size = SplitN - 2

\* C6: dev is the first dev_size rows of the shuffled sequence, test the
\* next test_size rows and train all remaining rows, so every retained row
\* lands in exactly one split, in the order of the shuffle permutation.
Shuffled == IF tool = "train" THEN selected_rows ELSE all_rows
C6_PartitionInShuffleOrder ==
  "write_splits" \in effects => dev_tsv \o test_tsv \o train_tsv = Shuffled

\* C7: the sizes for N <= 10 do not depend on the ratios: N = 0 gives
\* (0, 0, 0), N = 1 gives (0, 0, 1), N = 2 gives (1, 0, 1), and 3 <= N <= 10
\* gives (1, 1, N - 2).
C7_SmallNPolicy ==
  (SplitSized /\ SplitN <= 10) =>
    <<dev_size, test_size, train_size>> =
      CASE SplitN = 0 -> <<0, 0, 0>>
        [] SplitN = 1 -> <<0, 0, 1>>
        [] SplitN = 2 -> <<1, 0, 1>>
        [] OTHER -> <<1, 1, SplitN - 2>>
C7_Witness ==
  /\ SplitDone /\ SplitN = 10
  /\ dev_ratio = RatioDen \div 2 /\ test_ratio = 2
  /\ <<dev_size, test_size, train_size>> = <<1, 1, 8>>

\* C8: for N > 10, dev_size = max(1, round(N * dev_ratio)) and
\* test_size = max(1, round(N * test_ratio)), both set to 1 when they would
\* leave no row for train; train_size is N minus the two and at least 1.
C8_RatioSizes ==
  (SplitSized /\ SplitN > 10) =>
    \E rd, rt \in (-2 * SplitN)..(2 * SplitN) :
      /\ IsRounded(rd, SplitN * dev_ratio, RatioDen)
      /\ IsRounded(rt, SplitN * test_ratio, RatioDen)
      /\ LET d == Max(1, rd)
             t == Max(1, rt)
         IN IF SplitN - d - t <= 0
            THEN dev_size = 1 /\ test_size = 1
            ELSE dev_size = d /\ test_size = t
      /\ train_size = SplitN - dev_size - test_size
      /\ train_size >= 1
C8_Witness ==
  /\ SplitDone /\ SplitN > 10
  /\ 2 * ((SplitN * dev_ratio) % RatioDen) = RatioDen
  /\ dev_size > 1 /\ dev_size % 2 = 0
  /\ dev_size * RatioDen < SplitN * dev_ratio
  /\ test_size > 1

InvalidRatios ==
  dev_ratio < 0 \/ test_ratio < 0 \/ dev_ratio + test_ratio >= RatioDen
C10_InvalidRatiosRejected ==
  (tool \in {"split", "train"} /\ InvalidRatios) =>
    /\ pc \in {"check_ratio", "error"}
    /\ effects = {}
    /\ manifest = manifest0 /\ clips = clips0

\* ---- claims about the split tools and the cleanup tools ------------------
SplitTools == {"split", "split_py", "three"}
\* the row has a sentence column and nothing but whitespace in it
EmptySentence(row) == Len(row) >= 4 /\ Strip(row[4]) = <<>>
Written == dev_tsv \o test_tsv \o train_tsv

\* C11: no row whose sentence is empty or whitespace-only is written to
\* dev.tsv, test.tsv or train.tsv by any of the split tools, whatever the
\* input manifest.
C11_NoEmptySentenceInSplits ==
  (tool \in SplitTools /\ "write_splits" \in effects) =>
    \A i \in DOMAIN Written : ~EmptySentence(Written[i])

\* ---- claims about append_cv_corpus_to_this_concise_ds_1000.py ------------
\* the source rows have been read and filtered, and not sampled
AppendFiltered ==
  /\ tool = "append"
  /\ pc \notin {"check_source", "read_source"}
  /\ source.tsv /\ source.clips_dir /\ VerifyTsvFields(source.header)
  /\ num_samples >= Len(source.rows)
\* the row is well-formed, its sentence is not blank and has min words
KeptByFilter(row, min) ==
  /\ Len(row) >= 4
  /\ Strip(row[4]) # <<>>
  /\ WordCount(row[4]) >= min

\* C12: for every threshold min_words >= 0 the filter of the append tool
\* removes every row whose sentence is empty or whitespace-only and every
\* row with fewer than min_words words, and keeps every other well-formed
\* row, in the order of the source.
C12_FilterRemovesEmptyAndShort ==
  AppendFiltered =>
    source_rows = SelectSeq(source.rows, LAMBDA row : KeptByFilter(row, min_words))

\* append_data has run: the rows it was given, the target it read
AppendMerged == tool = "append" /\ ~dry_run /\ pc \in {"copy", "done"}
HasPath(row) == Len(row) > 1
HasSentence(row) == Len(row) > 3
HasNonEmptyPath(row) == Len(row) > 1 /\ row[2] # <<>>
HasNonEmptySentence(row) == Len(row) > 3 /\ row[4] # <<>>
\* the two rows have the same path basename or the same trimmed sentence;
\* with nonEmpty only a path or sentence that is not the empty string counts
SameClipOrText(a, b, nonEmpty) ==
  IF nonEmpty
  THEN \/ /\ HasNonEmptyPath(a) /\ HasNonEmptyPath(b)
          /\ Basename(a[2]) = Basename(b[2])
       \/ /\ HasNonEmptySentence(a) /\ HasNonEmptySentence(b)
          /\ Strip(a[4]) = Strip(b[4])
  ELSE \/ HasPath(a) /\ HasPath(b) /\ Basename(a[2]) = Basename(b[2])
       \/ HasSentence(a) /\ HasSentence(b) /\ Strip(a[4]) = Strip(b[4])
\* the indices up to n of the incoming rows that equal no target row and no
\* incoming row accepted before them
RECURSIVE AcceptedUpTo(_, _, _, _)
AcceptedUpTo(rows, target, n, nonEmpty) ==
  IF n = 0 THEN {}
  ELSE LET before == AcceptedUpTo(rows, target, n - 1, nonEmpty)
           dup == \/ \E t \in DOMAIN target :
                       SameClipOrText(rows[n], target[t], nonEmpty)
                  \/ \E j \in before :
                       SameClipOrText(rows[n], rows[j], nonEmpty)
       IN IF dup THEN before ELSE before \cup {n}
RowsAt(rows, idx) ==
  [k \in 1..Cardinality(idx) |->
     rows[CHOOSE i \in idx : Cardinality({j \in idx : j <= i}) = k]]
MergeAsStated(nonEmpty) ==
  LET acc == AcceptedUpTo(source_rows, manifest0, Len(source_rows), nonEmpty)
  IN /\ new_rows = RowsAt(source_rows, acc)
     /\ duplicates = Len(source_rows) - Cardinality(acc)
     /\ manifest = manifest0 \o new_rows
NoSharedClipOrText ==
  /\ \A i \in DOMAIN new_rows : \A t \in DOMAIN manifest0 :
       ~SameClipOrText(new_rows[i], manifest0[t], TRUE)
  /\ \A i, j \in DOMAIN new_rows :
       i # j => ~SameClipOrText(new_rows[i], new_rows[j], TRUE)

\* C13 (as stated): an incoming row is skipped and counted in duplicates iff
\* its path basename or its trimmed sentence equals that of a target row or
\* of an incoming row accepted earlier in the call.
C13_MergeDedupAsStated == AppendMerged => MergeAsStated(FALSE)

\* C13: an incoming row is skipped and counted in duplicates iff its path is
\* not empty and has the basename of a non-empty path of a target row or of
\* an incoming row accepted earlier, or its sentence is not empty and has the
\* trimmed value of a non-empty sentence of such a row; so no added row
\* shares a non-empty path or sentence with a target row or another added
\* row, and a single incoming row whose path is in the target gives
\* duplicates = 1 and no added row.
C13_MergeDedup ==
  AppendMerged =>
    /\ MergeAsStated(TRUE)
    /\ NoSharedClipOrText
    /\ (/\ Len(source_rows) = 1
        /\ HasNonEmptyPath(source_rows[1])
        /\ Basename(source_rows[1][2]) \in ExistingPaths(manifest0))
         => duplicates = 1 /\ new_rows = <<>>
C13_Witness ==
  /\ AppendMerged
  /\ manifest0 # <<>>
  /\ Len(new_rows) = 1 /\ duplicates = 2
  /\ \E i \in DOMAIN source_rows :
       /\ SameClipOrText(source_rows[i], manifest0[1], TRUE)
       /\ ~SameClipOrText(source_rows[i], new_rows[1], TRUE)
  /\ \E i \in DOMAIN source_rows :
       /\ source_rows[i] # new_rows[1]
       /\ SameClipOrText(source_rows[i], new_rows[1], TRUE)
       /\ \A t \in DOMAIN manifest0 :
            ~SameClipOrText(source_rows[i], manifest0[t], TRUE)

\* ---- claims about the tools that add rows to the manifest -----------------
NoDuplicatePaths(rows) ==
  \A i, j \in DOMAIN rows :
    (i # j /\ Len(rows[i]) >= 2 /\ Len(rows[j]) >= 2) => rows[i][2] # rows[j][2]
\* C14: after any sequence of completed runs of the parquet conversion, the
\* SpeechOcean conversion, the Copy1 merge and the append tool over the same
\* manifest and inputs, no two rows of the manifest carry the same path.
C14_NoDuplicatePathsAfterRuns ==
  (pc \in {"idle", "done", "exit1"}) => NoDuplicatePaths(manifest)

\* ---- claims about --dry-run, sampling and the errors of the tools --------
DryRunTools == {"append", "delete"}
Mutations == {"mkdir", "write_manifest", "copy", "unlink", "write_splits"}
\* C15: with --dry-run the append tool and the orphan-deletion tool change
\* nothing: the manifest and the clips directory stay as they were and no
\* file or directory is created, modified or deleted.
C15_DryRunMutatesNothing ==
  (dry_run /\ tool \in DryRunTools) =>
    /\ manifest = manifest0
    /\ clips = clips0
    /\ effects \cap Mutations = {}

\* C16: the numbers of rows to add and of duplicates to skip that the
\* append tool reports with --dry-run are the numbers append_data adds and
\* skips for the same source rows and target manifest.
C16_DryRunCountsAsAppendData ==
  (tool = "append" /\ dry_run /\ pc = "done") =>
    /\ Len(new_rows) = Len(AppendData(source_rows, manifest).new_rows)
    /\ duplicates = AppendData(source_rows, manifest).duplicates

\* C17: read_source_data returns exactly min(num_samples, N) rows of the N
\* eligible rows of the source, for every num_samples >= 0.
C17_SampleSizeIsMin ==
  (tool = "append"
     /\ pc \in {"read_target", "append", "dry_run", "copy", "done"}) =>
    Len(source_rows)
      = Min(num_samples, Len(ReadSourceEligible(source.rows, min_words)))

Malformed(rows) == \E i \in DOMAIN rows : Len(rows[i]) < Len(Header)
\* C18: a manifest row with too few columns never aborts a run: when no
\* deletion fails, no tool that reads a manifest with such a row ends with
\* an uncaught exception.
C18_MalformedRowNeverAborts ==
  (tool \in ReconcileTools /\ Malformed(manifest0)
     /\ "unlink_failed" \notin effects) => pc # "error"

\* C19: a clip that cannot be deleted never aborts a cleanup: the failure
\* is caught for that clip and the run goes on.
C19_DeleteFailureNeverAborts ==
  (tool \in ReconcileTools /\ "unlink_failed" \in effects) => pc # "error"

\* C20: without the clips directory a reconciliation or split tool stops
\* with a non-zero exit status, having rewritten no manifest, written no
\* split file and deleted no clip.
C20_MissingClipsDirAborts ==
  (tool \in ReconcileTools /\ ~clips_dir) =>
    /\ pc # "done"
    /\ manifest = manifest0
    /\ effects \cap {"write_manifest", "write_splits", "unlink"} = {}

\* ---- claims about the headers, the conversions and the summaries ---------
BadHeader ==
  \/ source.tsv /\ ~VerifyTsvFields(source.header)
  \/ target_header # <<>> /\ ~VerifyTsvFields(target_header)
\* C21: when the header of the source manifest or of the target manifest
\* has not client_id, path and sentence in the positions 0, 1 and 3, the
\* append tool does not end with status 0 and leaves the target manifest
\* and the target clips as they were.
C21_BadHeaderRejected ==
  (tool = "append" /\ BadHeader) =>
    /\ pc # "done"
    /\ manifest = manifest0
    /\ clips = clips0

Converters == {"parquet", "speechocean"}
\* C22: at every point of a conversion run, also of one that was stopped,
\* every clip that is in the clips directory under its final name is a
\* completely written file.
C22_NoPartialClip ==
  (tool \in Converters) => partial \cap clips = {}

PathAndSentence(rows) == [k \in DOMAIN rows |-> <<rows[k][2], rows[k][4]>>]
\* what one run that nothing stops adds: the rows, and the clips it writes
UninterruptedRun ==
  IF tool = "parquet"
  THEN LET res == ProcessRows(corpus.parquet, 1, 0,
                              [files |-> {}, lines |-> <<>>, rng |-> 0])
       IN [lines |-> res.lines, files |-> res.files]
  ELSE LET res == SoProcessWavs(corpus.wavs, 1, corpus.transcripts, FALSE,
                                clips0,
                                [exported |-> {}, seen |-> {},
                                 lines |-> <<>>, rng |-> 0])
       IN [lines |-> res.lines, files |-> res.exported]
SameAsUninterrupted ==
  /\ PathAndSentence(manifest)
       = PathAndSentence(manifest0 \o UninterruptedRun.lines)
  /\ clips \ partial = clips0 \cup UninterruptedRun.files
\* C23: a conversion that was stopped at some point and then run again to
\* its end leaves the manifest rows (by path and sentence) and the set of
\* complete clips that one run without a stop leaves.
C23_ResumeSafe ==
  (tool \in Converters /\ pc = "done" /\ interrupted) => SameAsUninterrupted

\* the rows process_parquet_file is to return: in the order of the input,
\* those of the workers that returned a row
ReturnedInInputOrder ==
  LET idx == SelectSeq([i \in DOMAIN workers |-> i],
                       LAMBDA i : workers[i].st = "done")
  IN [k \in DOMAIN idx |->
        <<<<ParquetMp3Name(idx[k] - 1, corpus.parquet[idx[k]].text)>>,
          ParquetFormatSentence(corpus.parquet[idx[k]].text)>>]
\* C24: whatever the order the pool workers end in, process_parquet_file
\* returns the rows (by path and sentence) in the order of the input rows,
\* those of the workers that returned a row and no other.
C24_PoolOrderIndependent ==
  (tool = "parquet" /\ pc \in {"write", "done"}) =>
    PathAndSentence(processed_files) = ReturnedInInputOrder
C24_Witness ==
  /\ tool = "parquet" /\ pc = "write"
  /\ Len(processed_files) = 2
  /\ completed = <<2, 1>>

Exporting == {i \in DOMAIN workers : workers[i].st = "exporting"}
\* C25: no two pool workers ever write the same clip at the same time.
C25_WorkersWriteDistinctClips ==
  (tool = "parquet" /\ pc = "pool") =>
    \A i, j \in Exporting :
      i # j => ParquetMp3Name(i - 1, corpus.parquet[i].text)
                 # ParquetMp3Name(j - 1, corpus.parquet[j].text)
C25_Witness ==
  /\ tool = "parquet" /\ pc = "pool"
  /\ Cardinality(Exporting) = 2
  /\ corpus.parquet[1].text = corpus.parquet[2].text

\* ---- claims about the clips of the appended rows ----
\* C26: after a completed append without --dry-run, every row append_data
\* added to the target manifest names a clip that is in the target clips
\* directory.
AddedRowHasMedia(row) ==
  Len(row) > 1 /\ row[2] # <<>> /\ Basename(row[2]) \in clips
C26_AddedRowsHaveMedia ==
  (tool = "append" /\ pc = "done" /\ ~dry_run)
    => \A i \in DOMAIN new_rows : AddedRowHasMedia(new_rows[i])

\* ---- claims about the summary of the orphan-deletion tools ----
\* C27: when an orphan-deletion run ends, the number it reports as deleted is
\* the number of clips it removed, and its summary counts the clips it could
\* not remove as failures.
Summary == IF tool = "delete" THEN DeleteSummary ELSE UnwantedSummary
FailedDeletions == DeleteToDelete(clips, valid_mp3s)
C27_SummaryAccurate ==
  (/\ tool \in {"delete", "unwanted"} /\ pc = "done" /\ clips_dir /\ ~dry_run
   /\ FailedDeletions # {})
    => /\ Summary.deleted = Cardinality(clips0 \ clips)
       /\ "failed" \in DOMAIN Summary
       /\ Summary.failed = Cardinality(FailedDeletions)

\* ---- claims about rebuild_tsv_from_mp3_files ----
\* C28: whatever the manifest and the clips directory held before, the
\* manifest a --rebuild_tsv run writes has exactly one row for each clip of
\* the directory and no row for another path, so that it has as many rows as
\* there are clips.
Rebuilt == tool = "speechocean" /\ rebuild_tsv /\ pc = "done"
C28_RebuildOneRowPerClip ==
  Rebuilt
    => /\ \A f \in clips :
            Cardinality({i \in DOMAIN manifest : manifest[i][2] = <<f>>}) = 1
       /\ \A i \in DOMAIN manifest : \E f \in clips : manifest[i][2] = <<f>>
       /\ Len(manifest) = Cardinality(clips)
\* a rebuild over a manifest that had two rows for one clip, or a row for a
\* path that is no clip, and a directory of at least two clips
C28_Witness ==
  /\ Rebuilt
  /\ Cardinality(clips) >= 2
  /\ \/ \E i, j \in DOMAIN manifest0 :
          i # j /\ manifest0[i][2] = manifest0[j][2]
     \/ \E i \in DOMAIN manifest0 :
          \A f \in clips : manifest0[i][2] # <<f>>

\* ---- claims about process_with_hour_limit ----
\* C29: the durations of the WAV files process_with_hour_limit has selected
\* and copied to the output directory add up to at most total_hours * 3600
\* seconds.
RECURSIVE SumDurations(_)
SumDurations(S) ==
  IF S = {} THEN 0
  ELSE LET f == CHOOSE x \in S : TRUE
       IN f.duration + SumDurations(S \ {f})
C29_HourLimitRespected ==
  (tool = "hours" /\ pc = "done")
    => SumDurations(output_dir) <= total_hours * 3600

====
